---- MODULE Spec2Model ----
(***************************************************************************)
(* archlinux-driver-manager: the index builder (generate_database_inner),  *)
(* the resolver (search_inner) and the matcher / tag-filter functions of   *)
(* the catalog model, as a state machine.                                  *)
(*                                                                         *)
(*   Spec       generation runs against one database file, interleaved     *)
(*              with resolver queries                                      *)
(*   SpecMatch  the pure matcher and tag-filter functions applied to       *)
(*              inputs drawn from bounded pools                            *)
(*   SpecTx     generation runs that may fail at any step, with an         *)
(*              all_driver_packages read transaction running beside them   *)
(*   SpecWriters  generation runs of two processes on one database file    *)
(*   SpecInstall  calls of PackageManager::install, one alpm call at a time *)
(***************************************************************************)
EXTENDS Integers, Sequences, FiniteSets, TLC

VARIABLES
    serial,     \* the process-wide statics HARDWARE_SETUP_SERIAL / DRIVER_OPTION_SERIAL
    db,         \* committed contents of the database file: bucket name -> key -> value
    gen,        \* the running generate_database_inner invocation
    runs,       \* history of the committed generation runs
    searchOut,  \* the last search_inner call: its inputs and its result
    eval,       \* the last pure-function evaluation (SpecMatch)
    reader,     \* the running all_driver_packages call and its read-only transaction
    genOut,     \* how the last generate_database_inner call ended for its caller
    failures,   \* the generate_database_inner calls that failed so far
    other,      \* a generate_database_inner call of a second process on the same file
    pm          \* the PackageManager: its alpm transaction and the running install call

vars == <<serial, db, gen, runs, searchOut, eval, reader, genOut, failures, other, pm>>

\* ------------------------------------------------------------------ bounds

\* longest catalog handed to one generation run
MaxSetups == 2
\* generation runs in one behaviour
MaxRuns == 2
\* longest tag iterator handed to a filter
MaxTags == 2
\* generation runs that fail in one behaviour
MaxFailures == 1
\* the characters of the longest tag given on the command line
MaxTagLen == 3
\* the packages of the longest list given to PackageManager::install
MaxPackages == 2

\* ------------------------------------------------------------------ values

None == [some |-> FALSE]
Some(x) == [some |-> TRUE, value |-> x]

Ok(x) == [ok |-> TRUE, value |-> x]
Err(e) == [ok |-> FALSE, error |-> e]

\* how a call ended: it returned a Result to its caller, or it panicked
NoOutcome == [how |-> "none"]
Returned(r) == [how |-> "returned", result |-> r]
Panicked(at) == [how |-> "panicked", at |-> at]

\* HashMap / BTreeMap with no entry
EmptyMap == <<>>

Min(S) == CHOOSE x \in S : \A y \in S : x <= y

\* input_file::HardwareKind, by its Display string
HardwareKinds == {"graphics", "ethernet", "wireless", "audio"}

\* HardwareId::Pci(PciId{vendor, device}) | HardwareId::Usb(UsbId{vendor, device})
HardwareId(bus, vendor, device) == [bus |-> bus, vendor |-> vendor, device |-> device]

\* HardwareListInner::Pci(PciIdList) | HardwareListInner::Usb(UsbIdList)
IdList(bus, vendor, devices) == [type |-> bus, vendor |-> vendor, devices |-> devices]

\* HardwareList::Pci | HardwareList::Usb | HardwareList::Each
HardwareListPci(vendor, devices) ==
    [type |-> "Pci", vendor |-> vendor, devices |-> devices, inner |-> {}]
HardwareListUsb(vendor, devices) ==
    [type |-> "Usb", vendor |-> vendor, devices |-> devices, inner |-> {}]
HardwareListEach(inner) ==
    [type |-> "Each", vendor |-> 0, devices |-> {}, inner |-> inner]

DriverOption(priority, name, tags, packages) ==
    [order_of_priority |-> priority, name |-> name, tags |-> tags, packages |-> packages]

\* driver_options is a BTreeSet<DriverOption>: a sequence in Ord order
\* (order_of_priority is the first field compared)
HardwareSetup(name, kind, list, options) ==
    [name |-> name, hardware_kind |-> kind, hardware_list |-> list,
     driver_options |-> options]

\* ------------------------------------------------------------------ input pools

TagPool == {"proprietary", "stable", "beta"}

OptNvidia == DriverOption(1, "nvidia", {"proprietary", "stable"}, <<"nvidia">>)
OptNouveau == DriverOption(2, "nouveau", {"stable"}, <<"xf86-video-nouveau">>)
OptHybrid == DriverOption(1, "optimus", {"proprietary"}, <<"nvidia", "optimus-manager">>)
OptLan == DriverOption(1, "r8152", {}, <<"r8152-dkms">>)
OptAudio == DriverOption(1, "sof", {"stable"}, <<"sof-firmware">>)
OptWifi == DriverOption(1, "broadcom", {"proprietary", "beta"}, <<"broadcom-wl">>)

\* vendor 0x10de = 4318, 0x1002 = 4098; device 0x1381 = 4993, 0x1392 = 5010,
\* 0x1234 = 4660, 0x9999 = 39321
SetupNvidia ==
    HardwareSetup("a-nvidia", "graphics",
                  HardwareListPci(4318, {4993, 5010}), <<OptNvidia, OptNouveau>>)
SetupHybrid ==
    HardwareSetup("b-hybrid", "graphics",
                  HardwareListEach({IdList("Pci", 4318, {4993, 5010}),
                                    IdList("Usb", 4098, {4660})}), <<OptHybrid>>)
SetupUsbEmpty ==
    HardwareSetup("c-lan", "ethernet", HardwareListUsb(4318, {}), <<OptLan>>)
SetupEachEmpty ==
    HardwareSetup("d-generic", "audio", HardwareListEach({}), <<OptAudio>>)
SetupPciEmpty ==
    HardwareSetup("e-wifi", "wireless", HardwareListPci(4098, {}), <<OptWifi>>)
SetupUsb ==
    HardwareSetup("f-usb-lan", "ethernet", HardwareListUsb(4318, {4993}), <<OptLan>>)
SetupEachOfEmpty ==
    HardwareSetup("g-each-empty-inner", "audio",
                  HardwareListEach({IdList("Pci", 4318, {})}), <<OptAudio, OptNouveau>>)

\* the setups a catalog file is made of, in the BTreeSet's order (by name)
CatalogPool == <<SetupNvidia, SetupHybrid, SetupUsbEmpty, SetupEachEmpty>>

\* parse_input_file returns a BTreeSet<HardwareSetup>: a catalog is a subset of
\* the pool, iterated in the pool's order
SubSeqBy(pool, keep) ==
    LET F[i \in 0..Len(pool)] ==
            IF i = 0 THEN <<>>
            ELSE IF i \in keep THEN Append(F[i - 1], pool[i]) ELSE F[i - 1]
    IN F[Len(pool)]

Catalogs ==
    {SubSeqBy(CatalogPool, keep) :
        keep \in {k \in SUBSET (1..Len(CatalogPool)) : Cardinality(k) <= MaxSetups}}

\* the setups the pure functions are applied to
SetupPool ==
    {SetupNvidia, SetupHybrid, SetupUsbEmpty, SetupEachEmpty, SetupPciEmpty,
     SetupUsb, SetupEachOfEmpty}

\* the hardware a machine can hold
HardwarePool ==
    {HardwareId("Pci", 4318, 4993), HardwareId("Pci", 4318, 5010),
     HardwareId("Usb", 4318, 4993), HardwareId("Pci", 4098, 4993),
     HardwareId("Usb", 4098, 4660)}

\* the present sets a resolver query is run with
SearchPresent ==
    {{}, {HardwareId("Pci", 4318, 4993)}, {HardwareId("Pci", 4318, 39321)},
     {HardwareId("Pci", 4318, 4993), HardwareId("Usb", 4098, 4660)}}

\* tag iterators: sequences of distinct tags
RECURSIVE SeqsOver(_, _)
SeqsOver(S, n) ==
    IF n = 0 THEN {<<>>}
    ELSE LET shorter == SeqsOver(S, n - 1)
         IN shorter \cup
            {Append(s, t) : s \in {q \in shorter : Len(q) = n - 1},
                            t \in S}

Range(s) == {s[i] : i \in DOMAIN s}

TagSeqs == {s \in SeqsOver(TagPool, MaxTags) : Cardinality(Range(s)) = Len(s)}

\* ------------------------------------------------------------------ storage engine

\* a database file with no bucket
EmptyDb == <<>>

\* speedy's write_to_vec / read_from_buffer
SpeedyWrite(x) == [codec |-> "speedy", payload |-> x]
SpeedyRead(bytes) == bytes.payload

\* rmp_serde's encoding of a value of the given type
RmpWrite(type, x) == [codec |-> "rmp", type |-> type, payload |-> x]

\* rmp_serde::from_slice::<type>: bytes another codec wrote, or bytes of another
\* type, do not decode
RmpFromSlice(bytes, type) ==
    IF bytes.codec = "rmp" /\ bytes.type = type THEN Ok(bytes.payload)
    ELSE Err("decode")

\* Bucket::put
Put(bucket, key, value) ==
    [k \in DOMAIN bucket \cup {key} |-> IF k = key THEN value ELSE bucket[k]]

\* Tx::get_or_create_bucket on a writable transaction
GetOrCreateBucket(tx, name) ==
    IF name \in DOMAIN tx THEN tx
    ELSE [b \in DOMAIN tx \cup {name} |-> IF b = name THEN <<>> ELSE tx[b]]

\* the buckets generate_database_inner opens, in its order
BuilderBuckets ==
    <<"pci_id_to_hardware_setup_id_bucket",
      "usb_id_to_hardware_setup_id_bucket",
      "hardware_kind_to_hardware_setup_id_bucket",
      "hardware_kind_to_driver_option_id_bucket",
      "hardware_setup_id_to_driver_option_id_bucket",
      "hardware_setup_id_to_hardware_setup_bucket",
      "driver_option_id_to_driver_option_bucket">>

\* ------------------------------------------------------------------ index builder

\* new_hardware_setup_id: HARDWARE_SETUP_SERIAL.fetch_add(1).to_string()
NewHardwareSetupId(s) ==
    [id |-> ToString(s.hardware_setup), serial |-> [s EXCEPT !.hardware_setup = @ + 1]]

\* new_driver_option_id reading the static without advancing it
NewDriverOptionIdLoad(s) ==
    [id |-> ToString(s.driver_option), serial |-> s]

\* new_driver_option_id: DRIVER_OPTION_SERIAL.fetch_add(1).to_string()
NewDriverOptionId(s) ==
    [id |-> ToString(s.driver_option), serial |-> [s EXCEPT !.driver_option = @ + 1]]

\* ((vendor as u32) << 16) | (device as u32): the low 16 bits of the shifted
\* vendor are zero, so the bitwise or is a sum
PackedId(vendor, device) == (vendor * 65536) + device

\* bucket.get(key) followed by read_from_buffer, or the new empty BTreeSet
StoredSet(bucket, key) ==
    IF key \in DOMAIN bucket THEN SpeedyRead(bucket[key]) ELSE {}

\* the read, insert, put of one id under one key of one bucket
InsertAndPut(tx, name, key, id) ==
    [tx EXCEPT ![name] = Put(@, key, SpeedyWrite(StoredSet(@, key) \cup {id}))]

\* the block that unions the setup id into its kind's entry
PutKindToSetupId(tx, hardware_setup, hardware_setup_id) ==
    InsertAndPut(tx, "hardware_kind_to_hardware_setup_id_bucket",
                 hardware_setup.hardware_kind, hardware_setup_id)

\* hardware_setup_id_to_hardware_setup_bucket.put(id, hardware_setup.write_to_vec())
PutHardwareSetup(tx, hardware_setup, hardware_setup_id) ==
    [tx EXCEPT !["hardware_setup_id_to_hardware_setup_bucket"] =
        Put(@, hardware_setup_id, SpeedyWrite(hardware_setup))]

\* process_pci_id_list putting the setup id alone, without reading the stored set
RECURSIVE ProcessPciIdListOverwrite(_, _, _)
ProcessPciIdListOverwrite(tx, pci_id_list, hardware_setup_id) ==
    IF pci_id_list.devices = {} THEN tx
    ELSE LET device == Min(pci_id_list.devices)
             pci_id == ToString(PackedId(pci_id_list.vendor, device))
         IN ProcessPciIdListOverwrite(
                [tx EXCEPT !["pci_id_to_hardware_setup_id_bucket"] =
                    Put(@, pci_id, SpeedyWrite({hardware_setup_id}))],
                [pci_id_list EXCEPT !.devices = @ \ {device}],
                hardware_setup_id)

\* the closure process_pci_id_list, devices in the BTreeSet's ascending order
RECURSIVE ProcessPciIdList(_, _, _)
ProcessPciIdList(tx, pci_id_list, hardware_setup_id) ==
    IF pci_id_list.devices = {} THEN tx
    ELSE LET device == Min(pci_id_list.devices)
             pci_id == ToString(PackedId(pci_id_list.vendor, device))
         IN ProcessPciIdList(
                InsertAndPut(tx, "pci_id_to_hardware_setup_id_bucket", pci_id,
                             hardware_setup_id),
                [pci_id_list EXCEPT !.devices = @ \ {device}],
                hardware_setup_id)

\* the closure process_usb_id_list
RECURSIVE ProcessUsbIdList(_, _, _)
ProcessUsbIdList(tx, usb_id_list, hardware_setup_id) ==
    IF usb_id_list.devices = {} THEN tx
    ELSE LET device == Min(usb_id_list.devices)
             usb_id == ToString(PackedId(usb_id_list.vendor, device))
         IN ProcessUsbIdList(
                InsertAndPut(tx, "usb_id_to_hardware_setup_id_bucket", usb_id,
                             hardware_setup_id),
                [usb_id_list EXCEPT !.devices = @ \ {device}],
                hardware_setup_id)

\* the first element of a BTreeSet<HardwareListInner>: Pci before Usb, then by vendor
FirstInner(S) ==
    CHOOSE x \in S : \A y \in S :
        /\ (x.type = "Pci" \/ y.type = "Usb")
        /\ (x.type = y.type => x.vendor <= y.vendor)

\* the Each arm of the match: every inner list goes to its bus's closure
RECURSIVE ProcessEach(_, _, _)
ProcessEach(tx, hardware_lists, hardware_setup_id) ==
    IF hardware_lists = {} THEN tx
    ELSE LET hardware_list_inner == FirstInner(hardware_lists)
             tx1 == IF hardware_list_inner.type = "Pci"
                    THEN ProcessPciIdList(tx, hardware_list_inner, hardware_setup_id)
                    ELSE ProcessUsbIdList(tx, hardware_list_inner, hardware_setup_id)
         IN ProcessEach(tx1, hardware_lists \ {hardware_list_inner}, hardware_setup_id)

\* the match with a matcher that lists no device put under the key 0, as a
\* wildcard entry
ProcessHardwareListWildcard(tx, hardware_list, hardware_setup_id) ==
    IF hardware_list.devices = {}
       /\ \A inner \in hardware_list.inner : inner.devices = {}
    THEN InsertAndPut(tx, "pci_id_to_hardware_setup_id_bucket", ToString(0),
                      hardware_setup_id)
    ELSE CASE hardware_list.type = "Each" ->
                ProcessEach(tx, hardware_list.inner, hardware_setup_id)
          [] hardware_list.type = "Pci" ->
                ProcessPciIdList(tx, IdList("Pci", hardware_list.vendor,
                                            hardware_list.devices), hardware_setup_id)
          [] hardware_list.type = "Usb" ->
                ProcessUsbIdList(tx, IdList("Usb", hardware_list.vendor,
                                            hardware_list.devices), hardware_setup_id)

\* match &hardware_setup.hardware_list
ProcessHardwareList(tx, hardware_list, hardware_setup_id) ==
    CASE hardware_list.type = "Each" ->
            ProcessEach(tx, hardware_list.inner, hardware_setup_id)
      [] hardware_list.type = "Pci" ->
            ProcessPciIdList(tx, IdList("Pci", hardware_list.vendor, hardware_list.devices),
                             hardware_setup_id)
      [] hardware_list.type = "Usb" ->
            ProcessUsbIdList(tx, IdList("Usb", hardware_list.vendor, hardware_list.devices),
                             hardware_setup_id)

\* the option loop inserting the new id only into the block's own driver_option_ids
ProcessDriverOptionShadowed(st, hardware_setup, driver_option) ==
    LET new == NewDriverOptionId(st.serial)
        tx1 == InsertAndPut(st.tx, "hardware_kind_to_driver_option_id_bucket",
                            hardware_setup.hardware_kind, new.id)
        tx2 == [tx1 EXCEPT !["driver_option_id_to_driver_option_bucket"] =
                    Put(@, new.id, SpeedyWrite(driver_option))]
    IN [tx |-> tx2,
        serial |-> new.serial,
        driver_option_ids |-> st.driver_option_ids,
        assigned |-> Append(st.assigned, new.id)]

\* the body of the driver_options for_each for one option: the new id goes into the
\* kind's entry (the block's own driver_option_ids), then into the setup's
\* driver_option_ids declared before the loop, and the option is written under it.
\* st = [tx, serial, driver_option_ids, assigned]
ProcessDriverOption(st, hardware_setup, driver_option) ==
    LET new == NewDriverOptionId(st.serial)
        tx1 == InsertAndPut(st.tx, "hardware_kind_to_driver_option_id_bucket",
                            hardware_setup.hardware_kind, new.id)
        tx2 == [tx1 EXCEPT !["driver_option_id_to_driver_option_bucket"] =
                    Put(@, new.id, SpeedyWrite(driver_option))]
    IN [tx |-> tx2,
        serial |-> new.serial,
        driver_option_ids |-> st.driver_option_ids \cup {new.id},
        assigned |-> Append(st.assigned, new.id)]

\* hardware_setup.driver_options.iter().for_each(...), from option i on
RECURSIVE ProcessDriverOptions(_, _, _)
ProcessDriverOptions(st, hardware_setup, i) ==
    IF i > Len(hardware_setup.driver_options) THEN st
    ELSE ProcessDriverOptions(
            ProcessDriverOption(st, hardware_setup, hardware_setup.driver_options[i]),
            hardware_setup, i + 1)

\* hardware_setup_id_to_driver_option_id_bucket.put(hardware_setup_id, driver_option_ids)
PutSetupToOptionIds(tx, hardware_setup_id, driver_option_ids) ==
    [tx EXCEPT !["hardware_setup_id_to_driver_option_id_bucket"] =
        Put(@, hardware_setup_id, SpeedyWrite(driver_option_ids))]

\* the body of hardware_setups.iter().for_each(...) for one setup
ProcessHardwareSetup(tx, s, hardware_setup) ==
    LET new == NewHardwareSetupId(s)
        tx1 == PutKindToSetupId(tx, hardware_setup, new.id)
        tx2 == PutHardwareSetup(tx1, hardware_setup, new.id)
        tx3 == ProcessHardwareList(tx2, hardware_setup.hardware_list, new.id)
        st == ProcessDriverOptions(
                  [tx |-> tx3, serial |-> new.serial, driver_option_ids |-> {},
                   assigned |-> <<>>],
                  hardware_setup, 1)
    IN [tx |-> PutSetupToOptionIds(st.tx, new.id, st.driver_option_ids),
        serial |-> st.serial,
        hardware_setup_id |-> new.id,
        driver_option_ids |-> st.assigned]

\* the seven get_or_create_bucket calls on the writable transaction
RECURSIVE OpenBuilderBuckets(_, _)
OpenBuilderBuckets(tx, i) ==
    IF i > Len(BuilderBuckets) THEN tx
    ELSE OpenBuilderBuckets(GetOrCreateBucket(tx, BuilderBuckets[i]), i + 1)

\* ------------------------------------------------------------------ matcher

\* a PciIdList matched on vendor and device whatever the bus of the present id
MatchesPciAnyBus(pci_id_list, hardware_ids) ==
    \E device \in pci_id_list.devices :
        \E h \in hardware_ids : h.vendor = pci_id_list.vendor /\ h.device = device

\* one PciIdList: devices.iter().any(|device| hardware_ids.contains(Pci{vendor, device}))
MatchesPci(pci_id_list, hardware_ids) ==
    \E device \in pci_id_list.devices :
        HardwareId("Pci", pci_id_list.vendor, device) \in hardware_ids

\* a UsbIdList matched with all in place of any
MatchesUsbAll(usb_id_list, hardware_ids) ==
    \A device \in usb_id_list.devices :
        HardwareId("Usb", usb_id_list.vendor, device) \in hardware_ids

\* one UsbIdList: devices.iter().any(|device| hardware_ids.contains(Usb{vendor, device}))
MatchesUsb(usb_id_list, hardware_ids) ==
    \E device \in usb_id_list.devices :
        HardwareId("Usb", usb_id_list.vendor, device) \in hardware_ids

\* the Each arm with any in place of all
MatchesEachAny(hardware_lists_inner, hardware_ids) ==
    \E hardware_list_inner \in hardware_lists_inner :
        IF hardware_list_inner.type = "Pci"
        THEN MatchesPci(hardware_list_inner, hardware_ids)
        ELSE MatchesUsb(hardware_list_inner, hardware_ids)

\* the Each arm: hardware_lists_inner.into_iter().all(...)
MatchesEach(hardware_lists_inner, hardware_ids) ==
    \A hardware_list_inner \in hardware_lists_inner :
        IF hardware_list_inner.type = "Pci"
        THEN MatchesPci(hardware_list_inner, hardware_ids)
        ELSE MatchesUsb(hardware_list_inner, hardware_ids)

\* a matcher that asks that every present identifier be one it lists
MatchesOnlyListed(hardware_list, hardware_ids) ==
    LET lists == IF hardware_list.type = "Each" THEN hardware_list.inner
                 ELSE {IdList(hardware_list.type, hardware_list.vendor,
                              hardware_list.devices)}
    IN /\ hardware_ids # {}
       /\ \A h \in hardware_ids :
            \E l \in lists : l.type = h.bus /\ l.vendor = h.vendor /\ h.device \in l.devices

\* HardwareList::matches_with_hardware_ids
MatchesWithHardwareIds(hardware_list, hardware_ids) ==
    CASE hardware_list.type = "Each" -> MatchesEach(hardware_list.inner, hardware_ids)
      [] hardware_list.type = "Pci" -> MatchesPci(hardware_list, hardware_ids)
      [] hardware_list.type = "Usb" -> MatchesUsb(hardware_list, hardware_ids)

\* Iterator::all on the tags iterator: it takes items up to and including the
\* first one the predicate rejects, and leaves the rest in the iterator
TagsAll(tags, option_tags) ==
    LET failing == {i \in 1..Len(tags) : tags[i] \notin option_tags}
    IN IF failing = {} THEN [result |-> TRUE, rest |-> <<>>]
       ELSE [result |-> FALSE, rest |-> SubSeq(tags, Min(failing) + 1, Len(tags))]

\* self.driver_options.iter().filter(|o| tags.all(|tag| o.tags.contains(tag))):
\* the one `tags` iterator is shared by every call of the filter closure
RECURSIVE FilterDriverOptions(_, _, _, _)
FilterDriverOptions(driver_options, i, tags, kept) ==
    IF i > Len(driver_options) THEN kept
    ELSE LET r == TagsAll(tags, driver_options[i].tags)
         IN FilterDriverOptions(driver_options, i + 1, r.rest,
                IF r.result THEN kept \cup {driver_options[i]} ELSE kept)

\* HardwareSetup::matching_driver_options
MatchingDriverOptions(self, hardware_ids, optional_hardware, tags) ==
    IF optional_hardware.some /\ self.hardware_kind # optional_hardware.value THEN None
    ELSE IF ~MatchesWithHardwareIds(self.hardware_list, hardware_ids) THEN None
    ELSE Some(FilterDriverOptions(self.driver_options, 1, tags, {}))

\* ------------------------------------------------------------------ tag filters

\* process_hardware_listing_entry's filter in search_inner
SearchKeeps(filter_tags, driver_record) ==
    filter_tags = {} \/ (driver_record.tags \cap filter_tags) # {}

\* DriverListing::all_package_names' filter
AllPackageNamesKeeps(filter_tags, driver_record) ==
    filter_tags = {} \/ (driver_record.tags \cap filter_tags) # {}

\* the closure process_hardware_listing_entry of search_inner: for every entry of
\* the listing whose identifiers are not disjoint from the present ones,
\* entry(hardware_kind).or_default() is extended by the records the filter keeps
ProcessHardwareListingEntry(relevant_driver_records, hardware_kind, driver_listing, hardware_ids_present, filter_tags) ==
    LET matching == {hardware_ids \in DOMAIN driver_listing :
                        hardware_ids \cap hardware_ids_present # {}}
        kept == UNION {{driver_record \in driver_listing[hardware_ids] :
                            SearchKeeps(filter_tags, driver_record)} :
                        hardware_ids \in matching}
    IN IF matching = {} THEN relevant_driver_records
       ELSE [k \in DOMAIN relevant_driver_records \cup {hardware_kind} |->
                IF k # hardware_kind THEN relevant_driver_records[k]
                ELSE IF k \in DOMAIN relevant_driver_records
                     THEN relevant_driver_records[k] \cup kept
                     ELSE kept]

\* ------------------------------------------------------------------ identifiers
\*
\* A u32 is kept as its two 16-bit halves, so that the arithmetic below is done
\* at the width the program does it.  A u16 is a natural number below 65536.

U32(hi, lo) == [hi |-> hi, lo |-> lo]

\* `x as u32` of a u16
AsU32(x) == U32(0, x)

\* a * 16u32.pow(4) in u32: the product modulo 2^32, and whether it overflowed
U32MulPow(a) == [overflow |-> a.hi # 0, value |-> U32(a.lo, 0)]

\* a + b in u32: the sum modulo 2^32, and whether it overflowed
U32Add(a, b) ==
    LET lo == a.lo + b.lo
        hi == a.hi + b.hi + (lo \div 65536)
    IN [overflow |-> hi >= 65536, value |-> U32(hi % 65536, lo % 65536)]

\* a << 16 in u32
U32Shl16(a) == U32(a.lo, 0)

\* the bitwise or of two naturals
RECURSIVE BitOr(_, _)
BitOr(a, b) ==
    IF a = 0 THEN b
    ELSE IF b = 0 THEN a
    ELSE (IF a % 2 = 1 \/ b % 2 = 1 THEN 1 ELSE 0) + (2 * BitOr(a \div 2, b \div 2))

\* a | b in u32
U32Or(a, b) == U32(BitOr(a.hi, b.hi), BitOr(a.lo, b.lo))

\* a / 10 and a % 10 in u32
U32DivMod10(a) ==
    LET mid == ((a.hi % 10) * 65536) + a.lo
    IN [quot |-> U32(a.hi \div 10, mid \div 10), rem |-> mid % 10]

\* u32::to_string: the bytes of the decimal digits
RECURSIVE U32ToString(_)
U32ToString(a) ==
    IF a.hi = 0 /\ a.lo < 10 THEN <<48 + a.lo>>
    ELSE Append(U32ToString(U32DivMod10(a).quot), 48 + U32DivMod10(a).rem)

\* PciId::new: (vendor_id as u32) * 16u32.pow(4) + (device_id as u32)
PciIdNew(vendor_id, device_id) ==
    LET product == U32MulPow(AsU32(vendor_id))
        sum == U32Add(product.value, AsU32(device_id))
    IN [overflow |-> product.overflow \/ sum.overflow, value |-> sum.value]

\* PciId::vendor_id: self.value / 16u32.pow(4), then try_into::<u16>().expect(..)
PciIdVendorId(self) ==
    LET vendor_id == U32(0, self.value.hi)
    IN IF vendor_id.hi = 0 THEN Returned(vendor_id.lo) ELSE Panicked("data.rs:300")

\* PciId::device_id: self.value % 16u32.pow(4), then try_into::<u16>().expect(..)
PciIdDeviceId(self) ==
    LET device_id == U32(0, self.value.lo)
    IN IF device_id.hi = 0 THEN Returned(device_id.lo) ELSE Panicked("data.rs:311")

\* the key process_pci_id_list and process_usb_id_list put an identifier under:
\* (((vendor as u32) << 16) | (device as u32)).to_string(), as bytes
BuilderKey(vendor, device) ==
    U32ToString(U32Or(U32Shl16(AsU32(vendor)), AsU32(device)))

\* the key a lookup gets an identifier with: the packed value as four bytes,
\* the most significant first
LookupKey(vendor_id, device_id) ==
    LET value == PciIdNew(vendor_id, device_id).value
    IN <<value.hi \div 256, value.hi % 256, value.lo \div 256, value.lo % 256>>

\* ------------------------------------------------------------------ tags

\* str::trim: the whitespace at both ends is removed
RECURSIVE Trim(_)
Trim(str) ==
    IF str = <<>> THEN str
    ELSE IF Head(str) = " " THEN Trim(Tail(str))
    ELSE IF str[Len(str)] = " " THEN Trim(SubSeq(str, 1, Len(str) - 1))
    ELSE str

\* str::replace of one character by another
Replace(str, from, to) == [i \in DOMAIN str |-> IF str[i] = from THEN to ELSE str[i]]

\* convert_tag: tag.trim().replace("-", " ").replace("_", " ")
ConvertTag(tag) == Replace(Replace(Trim(tag), "-", " "), "_", " ")

\* ------------------------------------------------------------------ resolver

\* the buckets search_inner opens
SearchBuckets ==
    <<"pci_ids_to_hardware_case_ids_bucket",
      "usb_ids_to_hardware_case_ids_bucket",
      "hardware_case_ids_to_driver_options">>

\* get_bucket answering an absent bucket with an empty one
GetBucketOrEmpty(tx, name) ==
    IF name \in DOMAIN tx THEN Ok(tx[name]) ELSE Ok(<<>>)

\* Tx::get_bucket on a read-only transaction
GetBucket(tx, name) ==
    IF name \in DOMAIN tx THEN Ok(tx[name]) ELSE Err("BucketNotFound")

\* pci_id.into() / usb_id.into(): the key an identifier is looked up by, the
\* packed vendor:device
IdInto(hardware_id) == PackedId(hardware_id.vendor, hardware_id.device)

\* String::from_utf8_lossy(value).to_string(): the text of a UTF-8 value, and a
\* string of replacement characters for the bytes of a binary codec
Utf8Lossy(bytes) == IF bytes.codec = "utf8" THEN bytes.payload ELSE "\\uFFFD"

\* the loop over hardware_ids_present: an identifier with an entry in its bus's
\* bucket adds the entry's value, read as one id; one with no entry adds nothing
RelevantHardwareCaseIds(pci_bucket, usb_bucket, hardware_ids_present) ==
    {Utf8Lossy(pci_bucket[IdInto(h)]) :
        h \in {p \in hardware_ids_present :
                p.bus = "Pci" /\ IdInto(p) \in DOMAIN pci_bucket}}
    \cup
    {Utf8Lossy(usb_bucket[IdInto(h)]) :
        h \in {p \in hardware_ids_present :
                p.bus = "Usb" /\ IdInto(p) \in DOMAIN usb_bucket}}

\* search_inner on the snapshot its read transaction sees. Each get_bucket is
\* followed by `?`. A relevant id with no record is passed over; a record that
\* does not decode panics in unwrap(). The map it returns,
\* relevant_driver_options, is created empty and no later statement of the
\* function writes to it.
SearchInner(snapshot, hardware_ids_present, optional_hardware, tags) ==
    IF \E i \in 1..Len(SearchBuckets) : ~GetBucket(snapshot, SearchBuckets[i]).ok
    THEN Returned(Err("Database"))
    ELSE LET relevant_hardware_case_ids ==
                RelevantHardwareCaseIds(GetBucket(snapshot, SearchBuckets[1]).value,
                                        GetBucket(snapshot, SearchBuckets[2]).value,
                                        hardware_ids_present)
             driver_options == GetBucket(snapshot, SearchBuckets[3]).value
         IN IF \E id \in relevant_hardware_case_ids \cap DOMAIN driver_options :
                    ~RmpFromSlice(driver_options[id], "DriverOption").ok
            THEN Panicked("search.rs:201")
            ELSE Returned(Ok(EmptyMap))

\* the resolver's full scan: every setup's matcher and tag filter are evaluated,
\* and the options kept are gathered under the setup's kind
FullScan(catalog, hardware_ids_present, optional_hardware, tags) ==
    LET found(i) == MatchingDriverOptions(catalog[i], hardware_ids_present,
                                          optional_hardware, tags)
        options(kind) ==
            UNION {found(i).value :
                    i \in {j \in 1..Len(catalog) :
                            /\ catalog[j].hardware_kind = kind
                            /\ found(j).some}}
    IN [kind \in {k \in HardwareKinds : options(k) # {}} |-> options(kind)]

\* ------------------------------------------------------------------ package listing

\* HardwareKind's derived Ord: the order of its variants
KindOrder == <<"graphics", "ethernet", "wireless", "audio">>

\* the kinds process_hardware_kind is called with: the one asked for, or the
\* values of hardware_kind_to_driver_option_id_bucket that decode as a HardwareKind
ListKindsOf(kinds_bucket, optional_hardware) ==
    IF optional_hardware.some THEN {optional_hardware.value}
    ELSE {RmpFromSlice(kinds_bucket[k], "HardwareKind").value :
            k \in {j \in DOMAIN kinds_bucket :
                    RmpFromSlice(kinds_bucket[j], "HardwareKind").ok}}

\* all_driver_packages' filter: filter_tags.into_iter().all(|tag| tags.contains(tag))
AllDriverPackagesKeeps(filter_tags, driver_option) ==
    \A tag \in filter_tags : tag \in driver_option.tags

\* the filter_map and the inner fold for one kind: an id with no record and a
\* record that does not decode are dropped; the packages of the options the tag
\* filter keeps are added under the kind
FoldDriverOptions(options_bucket, driver_option_ids, filter_tags, hardware_kind, grouped_packages) ==
    LET found == {id \in driver_option_ids \cap DOMAIN options_bucket :
                    RmpFromSlice(options_bucket[id], "DriverOption").ok}
        kept == {o \in {RmpFromSlice(options_bucket[id], "DriverOption").value :
                            id \in found} :
                    AllDriverPackagesKeeps(filter_tags, o)}
        packages == UNION {Range(o.packages) : o \in kept}
    IN IF kept = {} THEN grouped_packages
       ELSE [k \in DOMAIN grouped_packages \cup {hardware_kind} |->
                IF k # hardware_kind THEN grouped_packages[k]
                ELSE IF k \in DOMAIN grouped_packages
                     THEN grouped_packages[k] \cup packages
                     ELSE packages]

\* the closure process_hardware_kind: the outer fold over the kinds, from the i-th
\* kind of the order on. The stored id set is decoded with unwrap(); a kind with
\* no entry makes the fold go on from a new empty map.
RECURSIVE ProcessHardwareKind(_, _, _, _, _, _)
ProcessHardwareKind(kinds_bucket, options_bucket, hardware_kinds, i, filter_tags, grouped_packages) ==
    IF i > Len(KindOrder) THEN Returned(Ok(grouped_packages))
    ELSE LET hardware_kind == KindOrder[i]
         IN IF hardware_kind \notin hardware_kinds
            THEN ProcessHardwareKind(kinds_bucket, options_bucket, hardware_kinds,
                                     i + 1, filter_tags, grouped_packages)
            ELSE IF hardware_kind \notin DOMAIN kinds_bucket
            THEN ProcessHardwareKind(kinds_bucket, options_bucket, hardware_kinds,
                                     i + 1, filter_tags, EmptyMap)
            ELSE LET driver_option_ids ==
                        RmpFromSlice(kinds_bucket[hardware_kind], "BTreeSet<String>")
                 IN IF ~driver_option_ids.ok THEN Panicked("list.rs:128")
                    ELSE ProcessHardwareKind(
                            kinds_bucket, options_bucket, hardware_kinds, i + 1,
                            filter_tags,
                            FoldDriverOptions(options_bucket, driver_option_ids.value,
                                              filter_tags, hardware_kind,
                                              grouped_packages))

\* all_driver_packages on the snapshot its read transaction sees
AllDriverPackages(snapshot, optional_hardware, filter_tags) ==
    LET kinds_bucket == GetBucket(snapshot, "hardware_kind_to_driver_option_id_bucket")
        options_bucket == GetBucket(snapshot, "driver_option_id_to_driver_option_bucket")
    IN IF ~kinds_bucket.ok \/ ~options_bucket.ok THEN Returned(Err("Database"))
       ELSE ProcessHardwareKind(kinds_bucket.value, options_bucket.value,
                                ListKindsOf(kinds_bucket.value, optional_hardware),
                                1, filter_tags, EmptyMap)

\* ------------------------------------------------------------------ installation

\* the names of the packages and of the driver records, in the order of String
PackageOrder ==
    <<"broadcom-wl", "ghost-driver", "nvidia", "optimus-manager", "r8152-dkms",
      "sof-firmware", "xf86-video-nouveau">>
NameOrder == <<"broadcom", "nouveau", "nvidia", "optimus", "r8152", "sof">>

Rank(order, x) == CHOOSE i \in DOMAIN order : order[i] = x

\* the elements of a set of package names as a sequence in String order
InOrder(names) ==
    LET F[i \in 0..Len(PackageOrder)] ==
            IF i = 0 THEN <<>>
            ELSE IF PackageOrder[i] \in names THEN Append(F[i - 1], PackageOrder[i])
            ELSE F[i - 1]
    IN F[Len(PackageOrder)]

\* DriverRecord's derived Ord: order_of_priority is compared first, then name
RecordLess(a, b) ==
    \/ a.order_of_priority < b.order_of_priority
    \/ /\ a.order_of_priority = b.order_of_priority
       /\ Rank(NameOrder, a.name) < Rank(NameOrder, b.name)

\* relevant_driver_records.iter().next(): the first record of the BTreeSet
FirstRecord(relevant_driver_records) ==
    CHOOSE r \in relevant_driver_records :
        \A o \in relevant_driver_records \ {r} : RecordLess(r, o)

\* installed_drivers: of the packages of every kind, those PackageManager::get
\* finds in the local database
InstalledDrivers(all_driver_packages, local) ==
    [hardware_kind \in DOMAIN all_driver_packages |->
        all_driver_packages[hardware_kind] \cap local]

\* list_inner on the file as committed, with the local package database
ListInner(snapshot, optional_hardware, tags, local) ==
    LET r == AllDriverPackages(snapshot, optional_hardware, tags)
    IN IF r.how = "returned" /\ r.result.ok
       THEN Returned(Ok(InstalledDrivers(r.result.value, local)))
       ELSE r

\* the fold of install_inner over the installed drivers: the names that are not
\* among the packages to install, kind after kind
PackagesToRemove(installed_hash_map, packages_to_install) ==
    LET F[i \in 0..Len(KindOrder)] ==
            IF i = 0 THEN <<>>
            ELSE IF KindOrder[i] \in DOMAIN installed_hash_map
                 THEN F[i - 1] \o InOrder(installed_hash_map[KindOrder[i]]
                                            \ Range(packages_to_install))
                 ELSE F[i - 1]
    IN F[Len(KindOrder)]

\* a call of PackageManager::install that install_inner has come to
InstallCall(packages_to_install, packages_to_remove) ==
    [how |-> "install", packages_to_install |-> packages_to_install,
     packages_to_remove |-> packages_to_remove]

\* install_inner from the result of its search_inner call on: `last` is the kind
\* whose set pop() takes from the values of the HashMap, list_result what
\* list_inner yields when it is called
InstallInnerAfterSearch(search_result, last, list_result) ==
    IF search_result.how # "returned" \/ ~search_result.result.ok THEN search_result
    ELSE IF DOMAIN search_result.result.value = {} THEN Panicked("install.rs:36")
    ELSE LET relevant_driver_records == search_result.result.value[last]
         IN IF relevant_driver_records = {} THEN Panicked("install.rs:41")
            ELSE LET packages_to_install ==
                        FirstRecord(relevant_driver_records).packages
                 IN IF list_result.how = "panicked" THEN list_result
                    ELSE InstallCall(packages_to_install,
                            IF list_result.result.ok
                            THEN PackagesToRemove(list_result.result.value,
                                                  packages_to_install)
                            ELSE <<>>)

\* install_inner up to its call of PackageManager::install
InstallInner(snapshot, hardware_ids_present, hardware, tags, local, last) ==
    InstallInnerAfterSearch(
        SearchInner(snapshot, hardware_ids_present, Some(hardware), tags), last,
        ListInner(snapshot, Some(hardware), {}, local))

\* ------------------------------------------------------------------ state machine

\* both statics start at 1 in a new process
InitSerial(pid) == [pid |-> pid, hardware_setup |-> 1, driver_option |-> 1]

Idle == [pc |-> "idle"]

\* a PackageManager with no transaction, over a local database of packages
PmIdle(local) ==
    [pc |-> "idle", local |-> local, local0 |-> local, trans |-> "none",
     add |-> <<>>, remove |-> <<>>, calls |-> <<>>,
     packages_to_install |-> <<>>, packages_to_remove |-> <<>>, i |-> 1,
     out |-> NoOutcome]

\* the second process before it has started
OtherIdle == [pc |-> "idle"]

Init ==
    /\ serial = InitSerial(1)
    /\ db = EmptyDb
    /\ gen = Idle
    /\ runs = <<>>
    /\ searchOut = [pc |-> "none"]
    /\ eval = [fn |-> "none"]
    /\ reader = [pc |-> "none"]
    /\ genOut = NoOutcome
    /\ failures = 0
    /\ other = OtherIdle
    /\ pm = PmIdle({"xf86-video-nouveau"})

\* begin(write = true) returns only while no writable transaction is open on the
\* file
WriteLockFree == gen.pc # "for_each" /\ other.pc # "for_each"

\* begin(write = false): the contents a read-only transaction reads from, those
\* of the last commit
BeginRead(committed) == committed

\* generate_database_inner up to the for_each: the catalog is parsed, the database
\* opened, the writable transaction begun and its seven buckets opened
GenBeginWith(catalogs) ==
    /\ gen.pc = "idle"
    /\ WriteLockFree
    /\ Len(runs) < MaxRuns
    /\ \E catalog \in catalogs :
        gen' = [pc |-> "for_each", catalog |-> catalog, i |-> 1,
                tx |-> OpenBuilderBuckets(db, 1),
                pid |-> serial.pid, fresh |-> (db = EmptyDb),
                hardware_setup_ids |-> <<>>, driver_option_ids |-> <<>>]
    /\ searchOut' = [pc |-> "none"]
    /\ genOut' = NoOutcome
    /\ UNCHANGED <<serial, db, runs, eval, reader, failures, other, pm>>

\* a generation run on any catalog of the pool
GenBegin == GenBeginWith(Catalogs)

\* one iteration of the for_each whose puts reach the file at once, outside any
\* transaction
GenSetupWriteThrough ==
    /\ gen.pc = "for_each"
    /\ gen.i <= Len(gen.catalog)
    /\ LET r == ProcessHardwareSetup(gen.tx, serial, gen.catalog[gen.i])
       IN /\ gen' = [gen EXCEPT !.tx = r.tx, !.i = @ + 1,
                        !.hardware_setup_ids = Append(@, r.hardware_setup_id),
                        !.driver_option_ids = Append(@, r.driver_option_ids)]
          /\ serial' = r.serial
          /\ db' = r.tx
    /\ UNCHANGED <<runs, searchOut, eval, reader, genOut, failures, other, pm>>

\* one iteration of hardware_setups.iter().for_each(...)
GenSetup ==
    /\ gen.pc = "for_each"
    /\ gen.i <= Len(gen.catalog)
    /\ LET r == ProcessHardwareSetup(gen.tx, serial, gen.catalog[gen.i])
       IN /\ gen' = [gen EXCEPT !.tx = r.tx, !.i = @ + 1,
                        !.hardware_setup_ids = Append(@, r.hardware_setup_id),
                        !.driver_option_ids = Append(@, r.driver_option_ids)]
          /\ serial' = r.serial
    /\ UNCHANGED <<db, runs, searchOut, eval, reader, genOut, failures, other, pm>>

\* transaction.commit() and the Ok return
GenCommit ==
    /\ gen.pc = "for_each"
    /\ gen.i > Len(gen.catalog)
    /\ db' = gen.tx
    /\ runs' = Append(runs, [catalog |-> gen.catalog, pid |-> gen.pid,
                             fresh |-> gen.fresh, db |-> gen.tx,
                             hardware_setup_ids |-> gen.hardware_setup_ids,
                             driver_option_ids |-> gen.driver_option_ids])
    /\ gen' = Idle
    /\ genOut' = Returned(Ok("Database generated successfully..."))
    /\ UNCHANGED <<serial, searchOut, eval, reader, failures, other, pm>>

\* the tool exits and is started again: the statics are initialised anew
NewProcess ==
    /\ gen.pc = "idle"
    /\ Len(runs) < MaxRuns
    /\ serial # InitSerial(serial.pid)
    /\ serial' = InitSerial(serial.pid + 1)
    /\ UNCHANGED <<db, gen, runs, searchOut, eval, reader, genOut, failures, other, pm>>

\* the tag arguments and kind arguments resolver queries are run with
SearchTags == {<<>>, <<"proprietary">>}
SearchKinds == {None, Some("graphics"), Some("audio")}

\* search_inner, in one read transaction on the committed file
Search ==
    /\ gen.pc = "idle"
    /\ searchOut.pc = "none"
    /\ \E hardware_ids_present \in SearchPresent, optional_hardware \in SearchKinds,
          tags \in SearchTags :
        searchOut' = [pc |-> "done", run |-> Len(runs),
                      hardware_ids_present |-> hardware_ids_present,
                      optional_hardware |-> optional_hardware,
                      tags |-> tags,
                      result |-> SearchInner(db, hardware_ids_present,
                                             optional_hardware, tags)]
    /\ UNCHANGED <<serial, db, gen, runs, eval, reader, genOut, failures, other, pm>>

Next ==
    \/ GenBegin
    \/ GenSetup
    \/ GenCommit
    \/ NewProcess
    \/ Search

Spec == Init /\ [][Next]_vars

\* ------------------------------------------------------------------ failures and readers

\* the arguments all_driver_packages is called with beside a generation
ListKindArgs == {None, Some("graphics")}
ListTagArgs == {{}}

\* the catalogs generated beside a reader: none, one setup, two setups sharing
\* their Pci devices, a setup with no device
TxCatalogs ==
    {<<>>, <<SetupNvidia>>, <<SetupNvidia, SetupHybrid>>, <<SetupEachEmpty>>}

\* a generation run on one of them
GenBeginTx == GenBeginWith(TxCatalogs)

\* parse_input_file(input_file)? fails: the function returns before the database
\* is opened
GenParseFails ==
    /\ gen.pc = "idle"
    /\ failures < MaxFailures
    /\ genOut' = Returned(Err("InputFileParse"))
    /\ failures' = failures + 1
    /\ UNCHANGED <<serial, db, gen, runs, searchOut, eval, reader, other, pm>>

\* with_database_path, tx(true) or a get_or_create_bucket fails: the `?` returns
\* the error and the transaction, if one was begun, is dropped
GenOpenFails ==
    /\ gen.pc = "idle"
    /\ failures < MaxFailures
    /\ genOut' = Returned(Err("Database"))
    /\ failures' = failures + 1
    /\ UNCHANGED <<serial, db, gen, runs, searchOut, eval, reader, other, pm>>

\* the failing put of a run whose earlier puts are kept in the file
GenPutFailsKeepsWrites ==
    /\ gen.pc = "for_each"
    /\ gen.i <= Len(gen.catalog)
    /\ failures < MaxFailures
    /\ failures' = failures + 1
    /\ serial' = NewHardwareSetupId(serial).serial
    /\ gen' = Idle
    /\ genOut' = Panicked([line |-> "generate_database.rs:130",
                            setups_done |-> gen.i - 1])
    /\ db' = gen.tx
    /\ UNCHANGED <<runs, searchOut, eval, reader, other, pm>>

\* the put of lines 124-130 fails for the setup at hand: .unwrap() panics after
\* new_hardware_setup_id() was called, and the unwinding drops the transaction
GenPutFails ==
    /\ gen.pc = "for_each"
    /\ gen.i <= Len(gen.catalog)
    /\ failures < MaxFailures
    /\ failures' = failures + 1
    /\ serial' = NewHardwareSetupId(serial).serial
    /\ gen' = Idle
    /\ genOut' = Panicked([line |-> "generate_database.rs:130",
                            setups_done |-> gen.i - 1])
    /\ UNCHANGED <<db, runs, searchOut, eval, reader, other, pm>>

\* transaction.commit()? fails: the error is returned and nothing is committed
GenCommitFails ==
    /\ gen.pc = "for_each"
    /\ gen.i > Len(gen.catalog)
    /\ failures < MaxFailures
    /\ failures' = failures + 1
    /\ gen' = Idle
    /\ genOut' = Returned(Err("Database"))
    /\ UNCHANGED <<serial, db, runs, searchOut, eval, reader, other, pm>>

\* all_driver_packages begins: tx(false) takes its snapshot of the committed
\* file, and the two get_bucket calls follow, each with `?`
ListBegin ==
    /\ reader.pc = "none"
    /\ \E optional_hardware \in ListKindArgs, filter_tags \in ListTagArgs :
        LET missing ==
                \/ ~GetBucket(db, "hardware_kind_to_driver_option_id_bucket").ok
                \/ ~GetBucket(db, "driver_option_id_to_driver_option_bucket").ok
        IN reader' = [pc |-> IF missing THEN "done" ELSE "kinds",
                      optional_hardware |-> optional_hardware,
                      filter_tags |-> filter_tags,
                      snapshot |-> BeginRead(db),
                      began |-> Len(runs),
                      written |-> IF gen.pc = "for_each" THEN gen.i - 1 ELSE 0,
                      kinds |-> {},
                      reads |-> <<Len(runs)>>,
                      out |-> IF missing THEN Returned(Err("Database")) ELSE NoOutcome]
    /\ UNCHANGED <<serial, db, gen, runs, searchOut, eval, genOut, failures, other, pm>>

\* the argument of process_hardware_kind is evaluated: the kind asked for, or the
\* kv_pairs() of the kind bucket
ListKinds ==
    /\ reader.pc = "kinds"
    /\ reader' = [reader EXCEPT
            !.pc = "fold",
            !.reads = Append(@, Len(runs)),
            !.kinds = ListKindsOf(
                        reader.snapshot["hardware_kind_to_driver_option_id_bucket"],
                        reader.optional_hardware)]
    /\ UNCHANGED <<serial, db, gen, runs, searchOut, eval, genOut, failures, other, pm>>

\* process_hardware_kind reading the committed file as it is now, through a
\* transaction begun anew
ListFoldReopens ==
    /\ reader.pc = "fold"
    /\ reader' = [reader EXCEPT
            !.pc = "done",
            !.reads = Append(@, Len(runs)),
            !.out = ProcessHardwareKind(
                        db["hardware_kind_to_driver_option_id_bucket"],
                        db["driver_option_id_to_driver_option_bucket"],
                        reader.kinds, 1, reader.filter_tags, EmptyMap)]
    /\ UNCHANGED <<serial, db, gen, runs, searchOut, eval, genOut, failures, other, pm>>

\* process_hardware_kind runs: every get goes through the buckets of the
\* transaction begun in ListBegin
ListFold ==
    /\ reader.pc = "fold"
    /\ reader' = [reader EXCEPT
            !.pc = "done",
            !.reads = Append(@, Len(runs)),
            !.out = ProcessHardwareKind(
                        reader.snapshot["hardware_kind_to_driver_option_id_bucket"],
                        reader.snapshot["driver_option_id_to_driver_option_bucket"],
                        reader.kinds, 1, reader.filter_tags, EmptyMap)]
    /\ UNCHANGED <<serial, db, gen, runs, searchOut, eval, genOut, failures, other, pm>>

\* the caller has the result and the transaction is dropped
ListReturn ==
    /\ reader.pc = "done"
    /\ reader' = [pc |-> "none"]
    /\ UNCHANGED <<serial, db, gen, runs, searchOut, eval, genOut, failures, other, pm>>

NextTx ==
    \/ GenBeginTx
    \/ GenSetup
    \/ GenCommit
    \/ GenParseFails
    \/ GenOpenFails
    \/ GenPutFails
    \/ GenCommitFails
    \/ ListBegin
    \/ ListKinds
    \/ ListFold
    \/ ListReturn

SpecTx == Init /\ [][NextTx]_vars

\* ------------------------------------------------------------------ two writers
\*
\* A second process runs generate_database_inner on the same file.  It has its
\* own statics; its committed run is appended to runs like any other.

\* the second process parses its catalog, opens the file and calls tx(true),
\* which returns at once or blocks while a writable transaction is open
OtherBegin ==
    /\ other.pc = "idle"
    /\ Len(runs) < MaxRuns
    /\ \E catalog \in TxCatalogs :
        LET started == [catalog |-> catalog, i |-> 1, seen |-> db,
                        serial |-> InitSerial(0), fresh |-> (db = EmptyDb),
                        hardware_setup_ids |-> <<>>, driver_option_ids |-> <<>>]
        IN other' = IF WriteLockFree
                    THEN started @@ [pc |-> "for_each", waited |-> FALSE,
                                     tx |-> OpenBuilderBuckets(db, 1)]
                    ELSE started @@ [pc |-> "blocked", waited |-> TRUE,
                                     tx |-> EmptyDb]
    /\ UNCHANGED <<serial, db, gen, runs, searchOut, eval, reader, genOut, failures, pm>>

\* tx(true) returns with a transaction on the file as it was when this process
\* called it
OtherAcquireStale ==
    /\ other.pc = "blocked"
    /\ WriteLockFree
    /\ other' = [other EXCEPT !.pc = "for_each",
                              !.tx = OpenBuilderBuckets(other.seen, 1)]
    /\ UNCHANGED <<serial, db, gen, runs, searchOut, eval, reader, genOut, failures, pm>>

\* the blocked tx(true) returns, followed by the get_or_create_bucket calls: the
\* transaction starts from the file as committed at that moment
OtherAcquire ==
    /\ other.pc = "blocked"
    /\ WriteLockFree
    /\ other' = [other EXCEPT !.pc = "for_each",
                              !.tx = OpenBuilderBuckets(db, 1)]
    /\ UNCHANGED <<serial, db, gen, runs, searchOut, eval, reader, genOut, failures, pm>>

\* one iteration of the second process's for_each
OtherSetup ==
    /\ other.pc = "for_each"
    /\ other.i <= Len(other.catalog)
    /\ LET r == ProcessHardwareSetup(other.tx, other.serial, other.catalog[other.i])
       IN other' = [other EXCEPT !.tx = r.tx, !.i = @ + 1, !.serial = r.serial,
                        !.hardware_setup_ids = Append(@, r.hardware_setup_id),
                        !.driver_option_ids = Append(@, r.driver_option_ids)]
    /\ UNCHANGED <<serial, db, gen, runs, searchOut, eval, reader, genOut, failures, pm>>

\* the second process's transaction.commit() and Ok return
OtherCommit ==
    /\ other.pc = "for_each"
    /\ other.i > Len(other.catalog)
    /\ db' = other.tx
    /\ runs' = Append(runs, [catalog |-> other.catalog, pid |-> 0,
                             fresh |-> other.fresh, db |-> other.tx,
                             hardware_setup_ids |-> other.hardware_setup_ids,
                             driver_option_ids |-> other.driver_option_ids])
    /\ other' = [pc |-> "done", waited |-> other.waited, catalog |-> other.catalog]
    /\ UNCHANGED <<serial, gen, searchOut, eval, reader, genOut, failures, pm>>

NextWriters ==
    \/ GenBeginTx
    \/ GenSetup
    \/ GenCommit
    \/ GenPutFails
    \/ GenCommitFails
    \/ OtherBegin
    \/ OtherAcquire
    \/ OtherSetup
    \/ OtherCommit

SpecWriters == Init /\ [][NextWriters]_vars

\* ------------------------------------------------------------------ package manager
\*
\* PackageManager::install, one call on the alpm handle per step.  pm.calls is
\* the sequence of the calls made on the handle since trans_init.

\* the packages the sync databases hold
SyncPackages == {"nvidia", "xf86-video-nouveau", "sof-firmware"}

\* the package lists install is called with
PackageLists ==
    {l \in SeqsOver({"nvidia", "xf86-video-nouveau", "ghost-driver"}, MaxPackages) :
        Cardinality(Range(l)) = Len(l)}

PackageNotFound(name) == Err([kind |-> "PackageNotFound", name |-> name])

\* the call of install and trans_init(flags).unwrap()
PmInstall ==
    /\ pm.pc = "idle"
    /\ \E packages_to_install \in PackageLists, packages_to_remove \in PackageLists :
        pm' = [PmIdle(pm.local) EXCEPT
                !.pc = "install_loop",
                !.trans = "initialized",
                !.calls = <<"trans_init">>,
                !.packages_to_install = packages_to_install,
                !.packages_to_remove = packages_to_remove]
    /\ UNCHANGED <<serial, db, gen, runs, searchOut, eval, reader, genOut, failures, other>>

\* first loop, a package some sync database holds: trans_add_pkg
PmAddPkg ==
    /\ pm.pc = "install_loop"
    /\ pm.i <= Len(pm.packages_to_install)
    /\ pm.packages_to_install[pm.i] \in SyncPackages
    /\ pm' = [pm EXCEPT !.add = Append(@, pm.packages_to_install[pm.i]),
                        !.calls = Append(@, "trans_add_pkg"),
                        !.i = @ + 1]
    /\ UNCHANGED <<serial, db, gen, runs, searchOut, eval, reader, genOut, failures, other>>

\* first loop, a package no sync database holds, passed over
PmAddNotFoundSkips ==
    /\ pm.pc = "install_loop"
    /\ pm.i <= Len(pm.packages_to_install)
    /\ pm.packages_to_install[pm.i] \notin SyncPackages
    /\ pm' = [pm EXCEPT !.i = @ + 1]
    /\ UNCHANGED <<serial, db, gen, runs, searchOut, eval, reader, genOut, failures, other>>

\* first loop, a package no sync database holds: trans_release and
\* Err(PackageNotFound)
PmAddNotFound ==
    /\ pm.pc = "install_loop"
    /\ pm.i <= Len(pm.packages_to_install)
    /\ pm.packages_to_install[pm.i] \notin SyncPackages
    /\ pm' = [pm EXCEPT !.pc = "done",
                        !.trans = "released",
                        !.calls = Append(@, "trans_release"),
                        !.out = Returned(PackageNotFound(pm.packages_to_install[pm.i]))]
    /\ UNCHANGED <<serial, db, gen, runs, searchOut, eval, reader, genOut, failures, other>>

\* the first loop ends and the second begins
PmInstallLoopEnds ==
    /\ pm.pc = "install_loop"
    /\ pm.i > Len(pm.packages_to_install)
    /\ pm' = [pm EXCEPT !.pc = "remove_loop", !.i = 1]
    /\ UNCHANGED <<serial, db, gen, runs, searchOut, eval, reader, genOut, failures, other>>

\* second loop, a package the local database holds: trans_remove_pkg
PmRemovePkg ==
    /\ pm.pc = "remove_loop"
    /\ pm.i <= Len(pm.packages_to_remove)
    /\ pm.packages_to_remove[pm.i] \in pm.local
    /\ pm' = [pm EXCEPT !.remove = Append(@, pm.packages_to_remove[pm.i]),
                        !.calls = Append(@, "trans_remove_pkg"),
                        !.i = @ + 1]
    /\ UNCHANGED <<serial, db, gen, runs, searchOut, eval, reader, genOut, failures, other>>

\* second loop, a package the local database does not hold: trans_release and
\* Err(PackageNotFound)
PmRemoveNotFound ==
    /\ pm.pc = "remove_loop"
    /\ pm.i <= Len(pm.packages_to_remove)
    /\ pm.packages_to_remove[pm.i] \notin pm.local
    /\ pm' = [pm EXCEPT !.pc = "done",
                        !.trans = "released",
                        !.calls = Append(@, "trans_release"),
                        !.out = Returned(PackageNotFound(pm.packages_to_remove[pm.i]))]
    /\ UNCHANGED <<serial, db, gen, runs, searchOut, eval, reader, genOut, failures, other>>

\* the second loop ends: trans_prepare().unwrap()
PmPrepare ==
    /\ pm.pc = "remove_loop"
    /\ pm.i > Len(pm.packages_to_remove)
    /\ pm' = [pm EXCEPT !.pc = "commit",
                        !.trans = "prepared",
                        !.calls = Append(@, "trans_prepare")]
    /\ UNCHANGED <<serial, db, gen, runs, searchOut, eval, reader, genOut, failures, other>>

\* trans_commit().unwrap() and Ok(()): the packages added are installed and the
\* packages to remove are removed
PmCommit ==
    /\ pm.pc = "commit"
    /\ pm' = [pm EXCEPT !.pc = "done",
                        !.trans = "committed",
                        !.calls = Append(@, "trans_commit"),
                        !.local = (@ \cup Range(pm.add)) \ Range(pm.remove),
                        !.out = Returned(Ok("()"))]
    /\ UNCHANGED <<serial, db, gen, runs, searchOut, eval, reader, genOut, failures, other>>

\* a call on the handle returns an error and its unwrap() panics
PmUnwrapPanics ==
    /\ pm.pc \in {"install_loop", "remove_loop", "commit"}
    /\ failures < MaxFailures
    /\ failures' = failures + 1
    /\ pm' = [pm EXCEPT !.pc = "done", !.out = Panicked("arch.rs")]
    /\ UNCHANGED <<serial, db, gen, runs, searchOut, eval, reader, genOut, other>>

\* install has returned to its caller
PmReturn ==
    /\ pm.pc = "done"
    /\ pm' = PmIdle(pm.local)
    /\ UNCHANGED <<serial, db, gen, runs, searchOut, eval, reader, genOut, failures, other>>

NextInstall ==
    \/ PmInstall
    \/ PmAddPkg
    \/ PmAddNotFound
    \/ PmInstallLoopEnds
    \/ PmRemovePkg
    \/ PmRemoveNotFound
    \/ PmPrepare
    \/ PmCommit
    \/ PmUnwrapPanics
    \/ PmReturn

SpecInstall == Init /\ [][NextInstall]_vars

\* ------------------------------------------------------------------ pure functions

OptionPool == UNION {Range(s.driver_options) : s \in SetupPool}

KindFilters == {None} \cup {Some(k) : k \in HardwareKinds}

\* HardwareList::matches_with_hardware_ids applied to one matcher and one present set
EvalMatches ==
    /\ eval.fn = "none"
    /\ \E s \in SetupPool, hardware_ids \in SUBSET HardwarePool :
        eval' = [fn |-> "matches_with_hardware_ids",
                 hardware_list |-> s.hardware_list,
                 hardware_ids |-> hardware_ids,
                 result |-> MatchesWithHardwareIds(s.hardware_list, hardware_ids)]
    /\ UNCHANGED <<serial, db, gen, runs, searchOut, reader, genOut, failures, other, pm>>

\* HardwareSetup::matching_driver_options applied to one setup
EvalMatchingDriverOptions ==
    /\ eval.fn = "none"
    /\ \E setup \in SetupPool, hardware_ids \in SUBSET HardwarePool,
          optional_hardware \in KindFilters, tags \in TagSeqs :
        eval' = [fn |-> "matching_driver_options",
                 setup |-> setup,
                 hardware_ids |-> hardware_ids,
                 optional_hardware |-> optional_hardware,
                 tags |-> tags,
                 result |-> MatchingDriverOptions(setup, hardware_ids,
                                                  optional_hardware, tags)]
    /\ UNCHANGED <<serial, db, gen, runs, searchOut, reader, genOut, failures, other, pm>>

\* the tag filter of search_inner applied to one option
EvalSearchKeeps ==
    /\ eval.fn = "none"
    /\ \E filter_tags \in SUBSET TagPool, option \in OptionPool :
        eval' = [fn |-> "search_inner", filter_tags |-> filter_tags,
                 option |-> option, result |-> SearchKeeps(filter_tags, option)]
    /\ UNCHANGED <<serial, db, gen, runs, searchOut, reader, genOut, failures, other, pm>>

\* the tag filter of DriverListing::all_package_names applied to one option
EvalAllPackageNamesKeeps ==
    /\ eval.fn = "none"
    /\ \E filter_tags \in SUBSET TagPool, option \in OptionPool :
        eval' = [fn |-> "all_package_names", filter_tags |-> filter_tags,
                 option |-> option,
                 result |-> AllPackageNamesKeeps(filter_tags, option)]
    /\ UNCHANGED <<serial, db, gen, runs, searchOut, reader, genOut, failures, other, pm>>

\* the tag filter of all_driver_packages applied to one option
EvalAllDriverPackagesKeeps ==
    /\ eval.fn = "none"
    /\ \E filter_tags \in SUBSET TagPool, option \in OptionPool :
        eval' = [fn |-> "all_driver_packages", filter_tags |-> filter_tags,
                 option |-> option,
                 result |-> AllDriverPackagesKeeps(filter_tags, option)]
    /\ UNCHANGED <<serial, db, gen, runs, searchOut, reader, genOut, failures, other, pm>>

\* generate_database_inner as a function of the file it finds: the buckets are
\* opened, the setups processed in order from the i-th on, and the transaction
\* committed
RECURSIVE ProcessHardwareSetups(_, _, _, _)
ProcessHardwareSetups(tx, s, catalog, i) ==
    IF i > Len(catalog) THEN tx
    ELSE LET r == ProcessHardwareSetup(tx, s, catalog[i])
         IN ProcessHardwareSetups(r.tx, r.serial, catalog, i + 1)

GenerateDatabaseInner(database, catalog) ==
    ProcessHardwareSetups(OpenBuilderBuckets(database, 1), InitSerial(1), catalog, 1)

\* the database files the queries are applied to
\* no bucket at all
DbEmpty == EmptyDb
\* what generate_database_inner writes for a catalog of two setups
DbGenerated == GenerateDatabaseInner(EmptyDb, <<SetupNvidia, SetupEachEmpty>>)
\* the two buckets of all_driver_packages with rmp_serde values, every id with
\* its record
DbRmp ==
    [b \in {"hardware_kind_to_driver_option_id_bucket",
            "driver_option_id_to_driver_option_bucket"} |->
        IF b = "hardware_kind_to_driver_option_id_bucket"
        THEN [k \in {"graphics", "audio"} |->
                RmpWrite("BTreeSet<String>",
                         IF k = "graphics" THEN {"1", "2"} ELSE {"3"})]
        ELSE [id \in {"1", "2", "3"} |->
                RmpWrite("DriverOption",
                         CASE id = "1" -> OptNvidia
                           [] id = "2" -> OptNouveau
                           [] id = "3" -> OptAudio)]]
\* the same with a record written by another codec and an id with no record
DbRmpBroken ==
    [DbRmp EXCEPT
        !["hardware_kind_to_driver_option_id_bucket"]["graphics"] =
            RmpWrite("BTreeSet<String>", {"1", "2", "9"}),
        !["driver_option_id_to_driver_option_bucket"]["2"] = SpeedyWrite(OptNouveau)]
\* the same with three more entries of the kind bucket whose values decode as a
\* HardwareKind: graphics and audio, which have an entry, and wireless, which
\* has none
DbRmpKindValues ==
    [DbRmp EXCEPT
        !["hardware_kind_to_driver_option_id_bucket"] =
            [k \in {"graphics", "audio", "kind-1", "kind-2", "kind-3"} |->
                CASE k = "kind-1" -> RmpWrite("HardwareKind", "graphics")
                  [] k = "kind-2" -> RmpWrite("HardwareKind", "wireless")
                  [] k = "kind-3" -> RmpWrite("HardwareKind", "audio")
                  [] OTHER -> DbRmp["hardware_kind_to_driver_option_id_bucket"][k]]]
\* the kind bucket alone
DbNoOptionBucket ==
    [b \in {"hardware_kind_to_driver_option_id_bucket"} |->
        DbRmp["hardware_kind_to_driver_option_id_bucket"]]
\* the three buckets of search_inner: one Pci identifier indexed
DbCases ==
    [b \in Range(SearchBuckets) |->
        CASE b = "pci_ids_to_hardware_case_ids_bucket" ->
                [k \in {IdInto(HardwareId("Pci", 4318, 4993))} |->
                    [codec |-> "utf8", payload |-> "case-1"]]
          [] b = "usb_ids_to_hardware_case_ids_bucket" -> <<>>
          [] b = "hardware_case_ids_to_driver_options" ->
                [k \in {"case-1"} |-> RmpWrite("DriverOption", OptNvidia)]]
\* the same with the case's record written by another codec
DbCasesBroken ==
    [DbCases EXCEPT
        !["hardware_case_ids_to_driver_options"]["case-1"] = SpeedyWrite(OptNvidia)]
\* the same without the usb bucket
DbCasesNoUsb ==
    [b \in Range(SearchBuckets) \ {"usb_ids_to_hardware_case_ids_bucket"} |-> DbCases[b]]

DatabasePool ==
    {DbEmpty, DbGenerated, DbRmp, DbRmpBroken, DbRmpKindValues, DbNoOptionBucket,
     DbCases, DbCasesBroken, DbCasesNoUsb}

\* the body of the for_each applied to one setup, in the transaction of a run on
\* a new file or on a generated one
EvalProcessHardwareSetup ==
    /\ eval.fn = "none"
    /\ \E hardware_setup \in SetupPool, database \in {DbEmpty, DbGenerated} :
        LET tx == OpenBuilderBuckets(database, 1)
            r == ProcessHardwareSetup(tx, InitSerial(1), hardware_setup)
        IN eval' = [fn |-> "process_hardware_setup",
                    hardware_setup |-> hardware_setup,
                    before |-> tx,
                    after |-> r.tx,
                    hardware_setup_id |-> r.hardware_setup_id,
                    driver_option_ids |-> r.driver_option_ids]
    /\ UNCHANGED <<serial, db, gen, runs, searchOut, reader, genOut, failures, other, pm>>

\* all_driver_packages applied to one database file
EvalAllDriverPackages ==
    /\ eval.fn = "none"
    /\ \E database \in DatabasePool, optional_hardware \in KindFilters,
          filter_tags \in SUBSET TagPool :
        eval' = [fn |-> "all_driver_packages()",
                 database |-> database,
                 optional_hardware |-> optional_hardware,
                 filter_tags |-> filter_tags,
                 result |-> AllDriverPackages(database, optional_hardware, filter_tags)]
    /\ UNCHANGED <<serial, db, gen, runs, searchOut, reader, genOut, failures, other, pm>>

\* the listings of one hardware kind: identifiers listed together, and the
\* records of the drivers for them
ListingNvidia ==
    [hardware_ids \in {{HardwareId("Pci", 4318, 4993), HardwareId("Pci", 4318, 5010)}}
        |-> {OptNvidia, OptNouveau}]
ListingHybrid ==
    [hardware_ids \in {{HardwareId("Pci", 4318, 4993), HardwareId("Pci", 4318, 5010)},
                       {HardwareId("Usb", 4098, 4660)}}
        |-> IF HardwareId("Usb", 4098, 4660) \in hardware_ids
            THEN {OptHybrid} ELSE {OptNvidia, OptNouveau}]
ListingPool == {<<>>, ListingNvidia, ListingHybrid}

\* process_hardware_listing_entry applied to one listing, on a result that is
\* empty or holds another kind
EvalProcessHardwareListingEntry ==
    /\ eval.fn = "none"
    /\ \E driver_listing \in ListingPool, hardware_ids_present \in SearchPresent,
          filter_tags \in SUBSET TagPool,
          before \in {EmptyMap, [k \in {"audio"} |-> {OptAudio}]} :
        eval' = [fn |-> "process_hardware_listing_entry",
                 hardware_kind |-> "graphics",
                 driver_listing |-> driver_listing,
                 hardware_ids_present |-> hardware_ids_present,
                 filter_tags |-> filter_tags,
                 before |-> before,
                 result |-> ProcessHardwareListingEntry(
                                before, "graphics", driver_listing,
                                hardware_ids_present, filter_tags)]
    /\ UNCHANGED <<serial, db, gen, runs, searchOut, reader, genOut, failures, other, pm>>

\* the files install_inner is run on: generated from a catalog, or holding the
\* buckets the queries open
InstallFiles ==
    {[catalog |-> c, database |-> GenerateDatabaseInner(EmptyDb, c)] :
        c \in {<<SetupNvidia>>, <<SetupNvidia, SetupEachEmpty>>}}
    \cup {[catalog |-> <<>>, database |-> d] : d \in {DbEmpty, DbCases, DbRmp}}

\* the packages the local database holds
LocalPool == {{}, {"nvidia"}, {"xf86-video-nouveau", "sof-firmware"}}

\* install_inner applied to one file, one machine and one request
EvalInstallInner ==
    /\ eval.fn = "none"
    /\ \E file \in InstallFiles, hardware_ids_present \in SearchPresent,
          hardware \in {"graphics", "audio"}, tags \in SearchTags, local \in LocalPool :
        LET search == SearchInner(file.database, hardware_ids_present,
                                  Some(hardware), tags)
        IN eval' = [fn |-> "install_inner",
                    catalog |-> file.catalog,
                    database |-> file.database,
                    hardware_ids_present |-> hardware_ids_present,
                    hardware |-> hardware,
                    tags |-> tags,
                    local |-> local,
                    search |-> search,
                    result |-> InstallInner(file.database, hardware_ids_present,
                                            hardware, tags, local, hardware)]
    /\ UNCHANGED <<serial, db, gen, runs, searchOut, reader, genOut, failures, other, pm>>

\* values of the type search_inner returns, for a request of the kind graphics
SearchResults ==
    {Returned(Ok([k \in {"graphics"} |-> {OptNvidia, OptNouveau}])),
     Returned(Ok([k \in {"graphics"} |-> {OptNvidia, OptHybrid}])),
     Returned(Ok([k \in {"graphics"} |-> {OptNouveau}])),
     Returned(Ok([k \in {"graphics"} |-> {}])),
     Returned(Ok(EmptyMap)),
     Returned(Err("Database"))}

\* install_inner from line 33 on, applied to a value search_inner's type admits
\* and to the file list_inner reads
EvalInstallInnerAfterSearch ==
    /\ eval.fn = "none"
    /\ \E search \in SearchResults, database \in {DbEmpty, DbGenerated, DbRmp},
          local \in LocalPool :
        LET list == ListInner(database, Some("graphics"), {}, local)
        IN eval' = [fn |-> "install_inner after search",
                    database |-> database,
                    hardware |-> "graphics",
                    local |-> local,
                    search |-> search,
                    list |-> list,
                    result |-> InstallInnerAfterSearch(search, "graphics", list)]
    /\ UNCHANGED <<serial, db, gen, runs, searchOut, reader, genOut, failures, other, pm>>

\* the u16 values identifiers are made of: 0x0000, 0x0001, 0x00ff, 0x10de,
\* 0x8000, 0xffff
U16Samples == {0, 1, 255, 4318, 32768, 65535}

\* two identifiers packed by PciId::new and unpacked, with the keys the builder
\* and a lookup compute for them
EvalPciId ==
    /\ eval.fn = "none"
    /\ \E vendor_id \in U16Samples, device_id \in U16Samples,
          other_vendor_id \in U16Samples, other_device_id \in U16Samples :
        LET pci_id == PciIdNew(vendor_id, device_id)
        IN eval' = [fn |-> "PciId::new",
                    vendor_id |-> vendor_id, device_id |-> device_id,
                    other_vendor_id |-> other_vendor_id,
                    other_device_id |-> other_device_id,
                    result |-> pci_id,
                    other_result |-> PciIdNew(other_vendor_id, other_device_id),
                    vendor_id_back |-> PciIdVendorId(pci_id),
                    device_id_back |-> PciIdDeviceId(pci_id),
                    builder_key |-> BuilderKey(vendor_id, device_id),
                    other_builder_key |-> BuilderKey(other_vendor_id, other_device_id),
                    lookup_key |-> LookupKey(vendor_id, device_id)]
    /\ UNCHANGED <<serial, db, gen, runs, searchOut, reader, genOut, failures, other, pm>>

\* the characters a tag argument is made of, and the tag arguments
TagChars == {" ", "-", "_", "a"}
TagArgs == SeqsOver(TagChars, MaxTagLen)

\* CommandlineInterface::run maps convert_tag over the tags of the command
EvalConvertTag ==
    /\ eval.fn = "none"
    /\ \E tag \in TagArgs :
        eval' = [fn |-> "convert_tag", tag |-> tag, result |-> ConvertTag(tag)]
    /\ UNCHANGED <<serial, db, gen, runs, searchOut, reader, genOut, failures, other, pm>>

\* search_inner applied to one database file and one set of present hardware
EvalSearchInner ==
    /\ eval.fn = "none"
    /\ \E database \in DatabasePool, hardware_ids_present \in SearchPresent,
          optional_hardware \in SearchKinds, tags \in SearchTags :
        eval' = [fn |-> "search_inner()",
                 database |-> database,
                 hardware_ids_present |-> hardware_ids_present,
                 optional_hardware |-> optional_hardware,
                 tags |-> tags,
                 result |-> SearchInner(database, hardware_ids_present,
                                        optional_hardware, tags)]
    /\ UNCHANGED <<serial, db, gen, runs, searchOut, reader, genOut, failures, other, pm>>

\* the call returns and its caller goes on to the next one
EvalReturn ==
    /\ eval.fn # "none"
    /\ eval' = [fn |-> "none"]
    /\ UNCHANGED <<serial, db, gen, runs, searchOut, reader, genOut, failures, other, pm>>

NextMatch ==
    \/ EvalMatches
    \/ EvalMatchingDriverOptions
    \/ EvalSearchKeeps
    \/ EvalAllPackageNamesKeeps
    \/ EvalAllDriverPackagesKeeps
    \/ EvalProcessHardwareSetup
    \/ EvalAllDriverPackages
    \/ EvalSearchInner
    \/ EvalProcessHardwareListingEntry
    \/ EvalConvertTag
    \/ EvalPciId
    \/ EvalInstallInner
    \/ EvalInstallInnerAfterSearch
    \/ EvalReturn

SpecMatch == Init /\ [][NextMatch]_vars

\* ------------------------------------------------------------------ claims

\* the identifiers a matcher lists: vendor x devices of every id list in it
ListedIds(hardware_list) ==
    IF hardware_list.type = "Each"
    THEN UNION {{HardwareId(inner.type, inner.vendor, d) : d \in inner.devices} :
                    inner \in hardware_list.inner}
    ELSE {HardwareId(hardware_list.type, hardware_list.vendor, d) :
                    d \in hardware_list.devices}

\* the identifiers of one bus listed by the setups of a catalog
ListedBy(catalog, bus) ==
    {h \in UNION {ListedIds(catalog[i].hardware_list) : i \in 1..Len(catalog)} :
        h.bus = bus}

\* the ids a run gave to the setups that list identifier h
SetupIdsListing(run, h) ==
    {run.hardware_setup_ids[i] :
        i \in {j \in 1..Len(run.catalog) : h \in ListedIds(run.catalog[j].hardware_list)}}

IndexKey(h) == ToString((h.vendor * 65536) + h.device)

IndexIsExact(bucket, run, bus) ==
    /\ DOMAIN bucket = {IndexKey(h) : h \in ListedBy(run.catalog, bus)}
    /\ \A h \in ListedBy(run.catalog, bus) :
            SpeedyRead(bucket[IndexKey(h)]) = SetupIdsListing(run, h)

NoDuplicates(ids) == Cardinality(Range(ids)) = Len(ids)

RECURSIVE Concat(_)
Concat(seqs) == IF seqs = <<>> THEN <<>> ELSE Head(seqs) \o Concat(Tail(seqs))

\* C1: after a generation commits, a resolver query on the same file finds every
\* bucket it needs (it does not fail) and, for a catalog of one Pci setup queried
\* by its kind with no tag, returns {kind: the setup's options} when a listed
\* device is present and the empty mapping when none is.
C1_ResolverReadsWhatBuilderWrote ==
    (searchOut.pc = "done" /\ searchOut.run >= 1) =>
        LET catalog == runs[searchOut.run].catalog
            q == searchOut
        IN /\ q.result.how = "returned"
           /\ q.result.result.ok
           /\ ( /\ runs[q.run].fresh
                /\ Len(catalog) = 1
                /\ catalog[1].hardware_list.type = "Pci"
                /\ q.optional_hardware = Some(catalog[1].hardware_kind)
                /\ q.tags = <<>> ) =>
                    q.result.result.value =
                        IF ListedIds(catalog[1].hardware_list) \cap q.hardware_ids_present # {}
                        THEN [k \in {catalog[1].hardware_kind} |->
                                    Range(catalog[1].driver_options)]
                        ELSE EmptyMap

\* C2: after a generation commits to a fresh file, the pci index holds exactly one
\* key per Pci identifier listed by some setup, mapped to exactly the ids of the
\* setups listing it, and the usb index likewise.
C2_IndexIsExact ==
    (Len(runs) >= 1 /\ runs[Len(runs)].fresh) =>
        /\ IndexIsExact(db["pci_id_to_hardware_setup_id_bucket"], runs[Len(runs)], "Pci")
        /\ IndexIsExact(db["usb_id_to_hardware_setup_id_bucket"], runs[Len(runs)], "Usb")

\* two setups share a Pci identifier and a Usb identifier is indexed
C2_Witness ==
    /\ Len(runs) >= 1
    /\ runs[Len(runs)].fresh
    /\ \E k \in DOMAIN db["pci_id_to_hardware_setup_id_bucket"] :
            Cardinality(SpeedyRead(db["pci_id_to_hardware_setup_id_bucket"][k])) = 2
    /\ DOMAIN db["usb_id_to_hardware_setup_id_bucket"] # {}

\* C3: after a generation commits, every option of every setup of the catalog is
\* stored under its id, its id is in its kind's entry and in its setup's entry, and
\* a setup's entry holds no id of another setup's option.
C3_OptionsReachable ==
    Len(runs) >= 1 =>
        LET run == runs[Len(runs)]
        IN \A i \in 1..Len(run.catalog) :
            LET hardware_setup == run.catalog[i]
                of_setup == SpeedyRead(
                    db["hardware_setup_id_to_driver_option_id_bucket"][run.hardware_setup_ids[i]])
            IN /\ \A j \in 1..Len(hardware_setup.driver_options) :
                    LET id == run.driver_option_ids[i][j]
                    IN /\ id \in DOMAIN db["driver_option_id_to_driver_option_bucket"]
                       /\ SpeedyRead(db["driver_option_id_to_driver_option_bucket"][id])
                            = hardware_setup.driver_options[j]
                       /\ id \in SpeedyRead(
                            db["hardware_kind_to_driver_option_id_bucket"][hardware_setup.hardware_kind])
                       /\ id \in of_setup
               /\ \A i2 \in (1..Len(run.catalog)) \ {i} :
                    Range(run.driver_option_ids[i2]) \cap of_setup = {}

\* a committed run of two setups, one of them with two options
C3_Witness ==
    /\ Len(runs) >= 1
    /\ Len(runs[Len(runs)].catalog) = 2
    /\ \E i \in 1..2 : Len(runs[Len(runs)].driver_option_ids[i]) = 2

\* C9: within one generation run the setup ids handed out are pairwise distinct
\* and so are the option ids, across all setups of the run.
C9_IdsDistinct ==
    /\ gen.pc = "for_each" =>
        /\ NoDuplicates(gen.hardware_setup_ids)
        /\ NoDuplicates(Concat(gen.driver_option_ids))
    /\ \A r \in 1..Len(runs) :
        /\ NoDuplicates(runs[r].hardware_setup_ids)
        /\ NoDuplicates(Concat(runs[r].driver_option_ids))

\* a run that handed out two setup ids and three option ids
C9_Witness ==
    /\ Len(runs) >= 1
    /\ Len(runs[Len(runs)].hardware_setup_ids) = 2
    /\ Len(Concat(runs[Len(runs)].driver_option_ids)) = 3

\* C10: two generation runs on the same catalog hand out the same setup ids and
\* the same option ids, in a new process or in the same one.
C10_IdsReproducible ==
    \A a, b \in 1..Len(runs) :
        runs[a].catalog = runs[b].catalog =>
            /\ runs[a].hardware_setup_ids = runs[b].hardware_setup_ids
            /\ runs[a].driver_option_ids = runs[b].driver_option_ids

\* C7: on a freshly generated file the index-assisted query (search_inner) returns
\* the mapping the full scan of the catalog returns, for every present set, kind
\* filter and tag filter.
C7_IndexPathEqualsFullScan ==
    (searchOut.pc = "done" /\ searchOut.run >= 1 /\ runs[searchOut.run].fresh) =>
        searchOut.result =
            Returned(Ok(FullScan(runs[searchOut.run].catalog,
                                 searchOut.hardware_ids_present,
                                 searchOut.optional_hardware, searchOut.tags)))

\* C4: on every path that filters by tags an option is kept exactly when every tag
\* of the filter is one of the option's tags.
C4_TagFilterIsSuperset ==
    /\ eval.fn \in {"search_inner", "all_package_names", "all_driver_packages"} =>
        eval.result = (eval.filter_tags \subseteq eval.option.tags)
    /\ (eval.fn = "matching_driver_options" /\ eval.result.some) =>
        eval.result.value =
            {o \in Range(eval.setup.driver_options) : Range(eval.tags) \subseteq o.tags}

\* C5: an Each matcher matches exactly when every inner matcher has at least one
\* of its own identifiers (its bus, its vendor, one of its devices) present.
C5_EachIsAllOfAny ==
    (eval.fn = "matches_with_hardware_ids" /\ eval.hardware_list.type = "Each") =>
        eval.result =
            (\A inner \in eval.hardware_list.inner :
                {HardwareId(inner.type, inner.vendor, d) : d \in inner.devices}
                    \cap eval.hardware_ids # {})

\* an Each of two inner matchers, only one of them satisfied: no match
C5_Witness ==
    /\ eval.fn = "matches_with_hardware_ids"
    /\ eval.hardware_list.type = "Each"
    /\ Cardinality(eval.hardware_list.inner) = 2
    /\ ListedIds(eval.hardware_list) \cap eval.hardware_ids # {}
    /\ eval.result = FALSE

\* C6: a Pci (Usb) matcher matches exactly when a present identifier has the
\* matcher's bus, the matcher's vendor and one of its devices.
C6_BusAndVendorDecide ==
    (eval.fn = "matches_with_hardware_ids" /\ eval.hardware_list.type \in {"Pci", "Usb"}) =>
        eval.result =
            (\E h \in eval.hardware_ids :
                /\ h.bus = eval.hardware_list.type
                /\ h.vendor = eval.hardware_list.vendor
                /\ h.device \in eval.hardware_list.devices)

\* a Pci matcher against its device numbers on the other bus and under another
\* vendor: no match
C6_Witness ==
    /\ eval.fn = "matches_with_hardware_ids"
    /\ eval.hardware_list.type = "Pci"
    /\ \E h \in eval.hardware_ids :
            h.bus = "Usb" /\ h.vendor = eval.hardware_list.vendor
                          /\ h.device \in eval.hardware_list.devices
    /\ \E h \in eval.hardware_ids :
            h.bus = "Pci" /\ h.vendor # eval.hardware_list.vendor
                          /\ h.device \in eval.hardware_list.devices
    /\ eval.result = FALSE

EmptyQuery ==
    /\ eval.fn = "matching_driver_options"
    /\ eval.hardware_ids = {}
    /\ eval.optional_hardware = None
    /\ eval.tags = <<>>

C11_RegenerationReplaces ==
    (Len(runs) >= 1 /\ gen.pc = "idle") =>
        LET run == runs[Len(runs)]
        IN /\ IndexIsExact(db["pci_id_to_hardware_setup_id_bucket"], run, "Pci")
           /\ IndexIsExact(db["usb_id_to_hardware_setup_id_bucket"], run, "Usb")
           /\ DOMAIN db["hardware_setup_id_to_hardware_setup_bucket"]
                = Range(run.hardware_setup_ids)
           /\ DOMAIN db["driver_option_id_to_driver_option_bucket"]
                = Range(Concat(run.driver_option_ids))
           /\ \A kind \in DOMAIN db["hardware_kind_to_hardware_setup_id_bucket"] :
                SpeedyRead(db["hardware_kind_to_hardware_setup_id_bucket"][kind])
                    \subseteq Range(run.hardware_setup_ids)

\* the contents of the file after the n-th committed generation
CommittedAt(n) == IF n = 0 THEN EmptyDb ELSE runs[n].db

Failed(outcome) ==
    \/ outcome.how = "panicked"
    \/ outcome.how = "returned" /\ ~outcome.result.ok

\* C12: what a read transaction sees is the file as a commit left it, whole: the
\* contents before the generation that runs beside it or, once that has
\* committed, the contents after; every setup and option of every generation
\* committed before it began is there, and nothing of an uncommitted one.
C12_ReaderSeesWholeGenerations ==
    reader.pc # "none" =>
        /\ reader.snapshot = CommittedAt(reader.began)
        /\ \A r \in 1..reader.began :
            /\ Range(runs[r].hardware_setup_ids)
                \subseteq DOMAIN reader.snapshot["hardware_setup_id_to_hardware_setup_bucket"]
            /\ Range(Concat(runs[r].driver_option_ids))
                \subseteq DOMAIN reader.snapshot["driver_option_id_to_driver_option_bucket"]

\* a read transaction begun after one commit, while the next generation had
\* already written a setup into its transaction
C12_Witness ==
    /\ reader.pc # "none"
    /\ reader.began >= 1
    /\ reader.written >= 1
    /\ reader.snapshot = CommittedAt(reader.began)

\* C13: when a generation run has failed (parse error, open or bucket failure,
\* failed put, failed commit) the file holds what the last committed generation
\* left, or nothing when none committed.
C13_FailedRunLeavesFile ==
    (gen.pc = "idle" /\ Failed(genOut)) => db = CommittedAt(Len(runs))

\* a run that failed on a put after it had written a whole setup into its
\* transaction
C13_Witness ==
    /\ gen.pc = "idle"
    /\ genOut.how = "panicked"
    /\ genOut.at.setups_done >= 1
    /\ db = CommittedAt(Len(runs))

\* C14: every failure of generation and of listing reaches the caller as an Err
\* value; none ends the call by a panic.
C14_FailuresAreErrValues ==
    /\ genOut.how # "panicked"
    /\ reader.pc = "done" => reader.out.how # "panicked"

\* C17: a read transaction answers from the file as it was when the transaction
\* began, at every one of its reads, also when a generation commits between two
\* of them: its result is the result on the contents at its beginning.
C17_ReaderKeepsItsSnapshot ==
    reader.pc = "done" =>
        reader.out = AllDriverPackages(CommittedAt(reader.began),
                                       reader.optional_hardware, reader.filter_tags)

\* a generation committed between the reader's get_bucket and its get, and the
\* file as committed would have given another answer
C17_Witness ==
    /\ reader.pc = "done"
    /\ Len(reader.reads) = 3
    /\ reader.reads[1] < reader.reads[3]
    /\ reader.out # AllDriverPackages(CommittedAt(reader.reads[3]),
                                      reader.optional_hardware, reader.filter_tags)

\* the identifiers of a present set that have an entry in their bus's index
IndexedIn(database, hardware_ids_present) ==
    {h \in hardware_ids_present :
        \/ h.bus = "Pci" /\ IdInto(h) \in DOMAIN database["pci_ids_to_hardware_case_ids_bucket"]
        \/ h.bus = "Usb" /\ IdInto(h) \in DOMAIN database["usb_ids_to_hardware_case_ids_bucket"]}

\* C15: a query on a file that lacks a bucket it opens returns Err(Database) and
\* no mapping, in search_inner and in all_driver_packages; when the buckets are
\* there, a present identifier with no index entry is no error and changes
\* nothing: the result is the one for the present set without it, and the empty
\* mapping when no present identifier is indexed.
C15_MissingBucketFailsQuery ==
    /\ eval.fn = "search_inner()" =>
        IF Range(SearchBuckets) \subseteq DOMAIN eval.database
        THEN /\ eval.result =
                    SearchInner(eval.database,
                                IndexedIn(eval.database, eval.hardware_ids_present),
                                eval.optional_hardware, eval.tags)
             /\ IndexedIn(eval.database, eval.hardware_ids_present) = {} =>
                    eval.result = Returned(Ok(EmptyMap))
        ELSE eval.result = Returned(Err("Database"))
    /\ eval.fn = "all_driver_packages()" =>
        ({"hardware_kind_to_driver_option_id_bucket",
          "driver_option_id_to_driver_option_bucket"} \subseteq DOMAIN eval.database
            \/ eval.result = Returned(Err("Database")))

\* a file that has two of the three buckets and indexes a present identifier:
\* the query fails all the same
C15_Witness ==
    /\ eval.fn = "search_inner()"
    /\ "pci_ids_to_hardware_case_ids_bucket" \in DOMAIN eval.database
    /\ ~(Range(SearchBuckets) \subseteq DOMAIN eval.database)
    /\ \E h \in eval.hardware_ids_present :
            IdInto(h) \in DOMAIN eval.database["pci_ids_to_hardware_case_ids_bucket"]
    /\ eval.result = Returned(Err("Database"))

\* C16: when an index value of a kind asked for does not decode, or lists an
\* option id that has no record or whose record does not decode, the listing
\* returns an Err; and so does the resolver when the record of an id it found
\* does not decode.
C16_BrokenRecordFailsQuery ==
    /\ ( /\ eval.fn = "all_driver_packages()"
         /\ {"hardware_kind_to_driver_option_id_bucket",
             "driver_option_id_to_driver_option_bucket"} \subseteq DOMAIN eval.database ) =>
        LET kinds_bucket == eval.database["hardware_kind_to_driver_option_id_bucket"]
            options_bucket == eval.database["driver_option_id_to_driver_option_bucket"]
            asked == IF eval.optional_hardware.some
                     THEN {eval.optional_hardware.value} \cap DOMAIN kinds_bucket
                     ELSE DOMAIN kinds_bucket
            ids(k) == RmpFromSlice(kinds_bucket[k], "BTreeSet<String>")
            broken ==
                \E k \in asked :
                    \/ ~ids(k).ok
                    \/ \E id \in ids(k).value :
                        \/ id \notin DOMAIN options_bucket
                        \/ ~RmpFromSlice(options_bucket[id], "DriverOption").ok
        IN broken => (eval.result.how = "returned" /\ ~eval.result.result.ok)
    /\ ( /\ eval.fn = "search_inner()"
         /\ Range(SearchBuckets) \subseteq DOMAIN eval.database ) =>
        LET driver_options == eval.database["hardware_case_ids_to_driver_options"]
            relevant == RelevantHardwareCaseIds(
                            eval.database["pci_ids_to_hardware_case_ids_bucket"],
                            eval.database["usb_ids_to_hardware_case_ids_bucket"],
                            eval.hardware_ids_present)
        IN (\E id \in relevant :
                \/ id \notin DOMAIN driver_options
                \/ ~RmpFromSlice(driver_options[id], "DriverOption").ok)
            => (eval.result.how = "returned" /\ ~eval.result.result.ok)

\* C19: a query on a freshly generated file returns a mapping; with a kind asked
\* for it has no other key; every option in it is one of a setup of the key's
\* kind; and every setup that matches the present hardware (and the kind, when
\* one is asked for) has its options that pass the tag filter under its kind.
C19_KindFilterSelects ==
    (searchOut.pc = "done" /\ searchOut.run >= 1 /\ runs[searchOut.run].fresh) =>
        LET q == searchOut
            catalog == runs[q.run].catalog
            matching ==
                {i \in 1..Len(catalog) :
                    /\ MatchesWithHardwareIds(catalog[i].hardware_list,
                                              q.hardware_ids_present)
                    /\ q.optional_hardware.some =>
                            catalog[i].hardware_kind = q.optional_hardware.value}
        IN /\ q.result.how = "returned"
           /\ q.result.result.ok
           /\ LET m == q.result.result.value
              IN /\ q.optional_hardware.some =>
                        DOMAIN m \subseteq {q.optional_hardware.value}
                 /\ \A k \in DOMAIN m : \A o \in m[k] :
                        \E i \in 1..Len(catalog) :
                            /\ catalog[i].hardware_kind = k
                            /\ o \in Range(catalog[i].driver_options)
                 /\ \A i \in matching : \A o \in Range(catalog[i].driver_options) :
                        Range(q.tags) \subseteq o.tags =>
                            /\ catalog[i].hardware_kind \in DOMAIN m
                            /\ o \in m[catalog[i].hardware_kind]

\* C20: a setup whose matcher lists no device is processed like any other: it
\* gets an id, its record is stored under it, the id is in its kind's entry, its
\* options are stored and listed in its kind's and in its own entry; and the pci
\* and usb indices are left as they were.
C20_EmptyMatcherAccepted ==
    ( /\ eval.fn = "process_hardware_setup"
      /\ ListedIds(eval.hardware_setup.hardware_list) = {} ) =>
        LET hardware_setup == eval.hardware_setup
            id == eval.hardware_setup_id
            tx == eval.after
        IN /\ tx["pci_id_to_hardware_setup_id_bucket"]
                = eval.before["pci_id_to_hardware_setup_id_bucket"]
           /\ tx["usb_id_to_hardware_setup_id_bucket"]
                = eval.before["usb_id_to_hardware_setup_id_bucket"]
           /\ id \in DOMAIN tx["hardware_setup_id_to_hardware_setup_bucket"]
           /\ SpeedyRead(tx["hardware_setup_id_to_hardware_setup_bucket"][id])
                = hardware_setup
           /\ id \in SpeedyRead(tx["hardware_kind_to_hardware_setup_id_bucket"]
                                  [hardware_setup.hardware_kind])
           /\ Len(eval.driver_option_ids) = Len(hardware_setup.driver_options)
           /\ \A j \in 1..Len(eval.driver_option_ids) :
                /\ eval.driver_option_ids[j]
                    \in DOMAIN tx["driver_option_id_to_driver_option_bucket"]
                /\ SpeedyRead(tx["driver_option_id_to_driver_option_bucket"]
                                [eval.driver_option_ids[j]])
                    = hardware_setup.driver_options[j]
                /\ eval.driver_option_ids[j]
                    \in SpeedyRead(tx["hardware_kind_to_driver_option_id_bucket"]
                                     [hardware_setup.hardware_kind])
           /\ SpeedyRead(tx["hardware_setup_id_to_driver_option_id_bucket"][id])
                = Range(eval.driver_option_ids)

\* an Each matcher whose one inner list has no device, with two options,
\* processed into a file that already indexes Pci devices
C20_Witness ==
    /\ eval.fn = "process_hardware_setup"
    /\ eval.hardware_setup.hardware_list.type = "Each"
    /\ eval.hardware_setup.hardware_list.inner # {}
    /\ ListedIds(eval.hardware_setup.hardware_list) = {}
    /\ Len(eval.driver_option_ids) = 2
    /\ DOMAIN eval.before["pci_id_to_hardware_setup_id_bucket"] # {}
    /\ eval.after["pci_id_to_hardware_setup_id_bucket"]
        = eval.before["pci_id_to_hardware_setup_id_bucket"]

\* the bucket of the builder that indexes the identifiers of a bus
IndexBucketOf(bus) ==
    IF bus = "Pci" THEN "pci_id_to_hardware_setup_id_bucket"
                   ELSE "usb_id_to_hardware_setup_id_bucket"

\* every id a committed run added to an index entry, a kind entry or a setup
\* entry is a member of that entry in the file
UnionsKept(database, run) ==
    /\ \A bus \in {"Pci", "Usb"} : \A h \in ListedBy(run.catalog, bus) :
        /\ IndexKey(h) \in DOMAIN database[IndexBucketOf(bus)]
        /\ SetupIdsListing(run, h)
            \subseteq SpeedyRead(database[IndexBucketOf(bus)][IndexKey(h)])
    /\ \A i \in 1..Len(run.catalog) :
        LET kind == run.catalog[i].hardware_kind
        IN /\ kind \in DOMAIN database["hardware_kind_to_hardware_setup_id_bucket"]
           /\ run.hardware_setup_ids[i]
                \in SpeedyRead(database["hardware_kind_to_hardware_setup_id_bucket"][kind])
           /\ run.driver_option_ids[i] # <<>> =>
                /\ kind \in DOMAIN database["hardware_kind_to_driver_option_id_bucket"]
                /\ Range(run.driver_option_ids[i])
                    \subseteq SpeedyRead(
                        database["hardware_kind_to_driver_option_id_bucket"][kind])

\* C18: two generation runs of two processes on one file never hold a writable
\* transaction at the same time, and after any commit every id that any
\* committed run added to an index set is still a member of that set.
C18_WritersDoNotInterleave ==
    /\ ~(gen.pc = "for_each" /\ other.pc = "for_each")
    /\ \A r \in 1..Len(runs) : UnionsKept(db, runs[r])

\* the second process called tx(true) while the first held its transaction,
\* waited, and committed after it; both catalogs list a common Pci identifier
C18_Witness ==
    /\ other.pc = "done"
    /\ other.waited
    /\ Len(runs) = 2
    /\ runs[1].pid # 0
    /\ ListedBy(runs[1].catalog, "Pci") \cap ListedBy(runs[2].catalog, "Pci") # {}

\* C23: in matching_driver_options an option of a matching setup is kept exactly
\* when it is kept by the same call on a setup that holds this option alone:
\* the decision does not depend on the other options or on their order.
C23_OptionDecidedAlone ==
    (eval.fn = "matching_driver_options" /\ eval.result.some) =>
        \A i \in 1..Len(eval.setup.driver_options) :
            LET driver_option == eval.setup.driver_options[i]
                alone == [eval.setup EXCEPT !.driver_options = <<driver_option>>]
            IN (driver_option \in eval.result.value)
                = (driver_option \in MatchingDriverOptions(
                        alone, eval.hardware_ids,
                        eval.optional_hardware, eval.tags).value)

\* C25: a matcher that matches a present set matches every larger present set.
C25_MatchIsMonotone ==
    (eval.fn = "matches_with_hardware_ids" /\ eval.result) =>
        \A more \in SUBSET HardwarePool :
            eval.hardware_ids \subseteq more =>
                MatchesWithHardwareIds(eval.hardware_list, more)

\* an Each matcher of two inner lists matches a present set that has an
\* identifier of each, and the machine can hold more hardware than that
C25_Witness ==
    /\ eval.fn = "matches_with_hardware_ids"
    /\ eval.result
    /\ eval.hardware_list.type = "Each"
    /\ Cardinality(eval.hardware_list.inner) = 2
    /\ Cardinality(eval.hardware_ids) = 2
    /\ eval.hardware_ids # HardwarePool

\* C24: when all_driver_packages returns a mapping, every kind it processed that
\* has an entry in hardware_kind_to_driver_option_id_bucket is mapped to what
\* processing this kind alone yields, whatever other kinds were processed.
C24_KindWithoutEntryKeepsOthers ==
    ( /\ eval.fn = "all_driver_packages()"
      /\ eval.result.how = "returned"
      /\ eval.result.result.ok ) =>
        LET kinds_bucket == eval.database["hardware_kind_to_driver_option_id_bucket"]
            options_bucket == eval.database["driver_option_id_to_driver_option_bucket"]
            alone(kind) == ProcessHardwareKind(kinds_bucket, options_bucket, {kind}, 1,
                                               eval.filter_tags, EmptyMap)
        IN \A kind \in ListKindsOf(kinds_bucket, eval.optional_hardware)
                            \cap DOMAIN kinds_bucket :
            (alone(kind).how = "returned" /\ kind \in DOMAIN alone(kind).result.value) =>
                /\ kind \in DOMAIN eval.result.result.value
                /\ eval.result.result.value[kind] = alone(kind).result.value[kind]

C30_ConvertTagIdempotent ==
    eval.fn = "convert_tag" => ConvertTag(eval.result) = eval.result

\* the packing of an identifier loses nothing: no overflow of 32 bits, the pair
\* is recovered, and two different pairs have different values and builder keys
PackingIsExact ==
    eval.fn = "PciId::new" =>
        /\ ~eval.result.overflow
        /\ eval.vendor_id_back = Returned(eval.vendor_id)
        /\ eval.device_id_back = Returned(eval.device_id)
        /\ <<eval.vendor_id, eval.device_id>> # <<eval.other_vendor_id, eval.other_device_id>> =>
                /\ eval.result.value # eval.other_result.value
                /\ eval.builder_key # eval.other_builder_key

\* C22: packing vendor and device into 32 bits never overflows, is injective and
\* is undone by vendor_id and device_id, and the key the builder writes for an
\* identifier is the key a lookup of that identifier computes.
C22_PackedKeyIsShared ==
    /\ PackingIsExact
    /\ eval.fn = "PciId::new" => eval.builder_key = eval.lookup_key

\* the option of least order_of_priority among those a full scan of the catalog
\* resolves for one kind, taking the first by name among equals
Winner(driver_options) ==
    CHOOSE r \in driver_options : \A o \in driver_options \ {r} : RecordLess(r, o)

\* C21: when the catalog a file was generated from holds options that apply to
\* the present hardware for the requested kind, install_inner comes to
\* PackageManager::install with exactly the package list of the one with the
\* least order_of_priority.
C21_LeastPriorityInstalled ==
    (eval.fn = "install_inner" /\ eval.catalog # <<>>) =>
        LET resolved == FullScan(eval.catalog, eval.hardware_ids_present,
                                 Some(eval.hardware), eval.tags)
        IN eval.hardware \in DOMAIN resolved =>
            /\ eval.result.how = "install"
            /\ eval.result.packages_to_install = Winner(resolved[eval.hardware]).packages

\* given a resolved set, the packages install_inner takes are those of a record
\* no other record of the set precedes in priority
FirstIsLeastPriority ==
    (eval.fn = "install_inner after search" /\ eval.result.how = "install") =>
        \E r \in eval.search.result.value[eval.hardware] :
            /\ eval.result.packages_to_install = r.packages
            /\ \A o \in eval.search.result.value[eval.hardware] :
                    r.order_of_priority <= o.order_of_priority

Phase(call) ==
    CASE call = "trans_init" -> 1
      [] call = "trans_add_pkg" -> 2
      [] call = "trans_remove_pkg" -> 3
      [] call = "trans_prepare" -> 4
      [] call = "trans_commit" -> 5
      [] call = "trans_release" -> 6

\* the first package of the two lists that is not found: one to install that no
\* sync database holds, else one to remove that was not installed
NotFound ==
    LET missing == {j \in 1..Len(pm.packages_to_install) :
                        pm.packages_to_install[j] \notin SyncPackages}
        absent == {j \in 1..Len(pm.packages_to_remove) :
                        pm.packages_to_remove[j] \notin pm.local0}
    IN IF missing # {} THEN Some(pm.packages_to_install[Min(missing)])
       ELSE IF absent # {} THEN Some(pm.packages_to_remove[Min(absent)])
       ELSE None

\* C29: the calls on the alpm handle come in the order init, adds, removes,
\* prepare, commit; commit is reached only when every package to install was
\* found in a sync database and every package to remove in the local one; on
\* the first package not found the transaction is released, the call returns
\* Err(PackageNotFound) of that package, prepare and commit are not called and
\* the installed packages are what they were.
C29_CommitOnlyWhenAllFound ==
    /\ pm.calls # <<>> => pm.calls[1] = "trans_init"
    /\ \A j, k \in 1..Len(pm.calls) :
            j < k => /\ Phase(pm.calls[j]) <= Phase(pm.calls[k])
                     /\ Phase(pm.calls[j]) = Phase(pm.calls[k])
                            => Phase(pm.calls[j]) \in {2, 3}
    /\ "trans_commit" \in Range(pm.calls) =>
            /\ NotFound = None
            /\ pm.add = pm.packages_to_install
            /\ pm.remove = pm.packages_to_remove
            /\ "trans_prepare" \in Range(pm.calls)
    /\ "trans_release" \in Range(pm.calls) =>
            /\ pm.out = Returned(PackageNotFound(NotFound.value))
            /\ "trans_prepare" \notin Range(pm.calls)
            /\ "trans_commit" \notin Range(pm.calls)
    /\ (pm.pc = "done" /\ NotFound.some /\ pm.out.how # "panicked") =>
            /\ pm.calls[Len(pm.calls)] = "trans_release"
            /\ pm.local = pm.local0

\* install was called with a package to install that was added and a package to
\* remove that is not installed, and has returned
C29_Witness ==
    /\ pm.pc = "done"
    /\ pm.add # <<>>
    /\ pm.out.how = "returned"
    /\ ~pm.out.result.ok
    /\ pm.out.result.error.name \in Range(pm.packages_to_remove)

====
